---- MODULE Spec2Model ----
(***************************************************************************)
(* Model of the content-aware compaction engine of RepoToTxt               *)
(* (src/llm_compressor.py, class LLMFriendlyCompressor).                   *)
(*                                                                         *)
(* Text.  A Python string is modelled as the non-empty sequence of its     *)
(* lines in the str.split('\n') convention: the text is the lines joined   *)
(* by '\n', the empty string is <<Blank>>, and a text ending in '\n' ends  *)
(* in a Blank line.  A line is a record [k, id, n, p]: k is the kind of    *)
(* line, id the identity of its text, n a number the text carries (or its  *)
(* length), p a path the text carries, m a set of module names the text    *)
(* carries.  Lines are atomic: two lines are the same text iff they are    *)
(* the same record, and substring searches are searches for whole lines.   *)
(* The input alphabet holds statements, comments, blank lines, imports,    *)
(* triple-quote delimiters, JSON arrays of numbers and stylesheet rules of *)
(* at most 8 declarations; it holds no markup, no class or function        *)
(* definition, and no long list or dict literal in a Python file.          *)
(*                                                                         *)
(* Paths.  A path is a record [dir, name, i, ext] standing for             *)
(* dir/name<i>ext (no <i> when i = 0, no dir/ when dir = "").              *)
(***************************************************************************)
EXTENDS Integers, Sequences, FiniteSets, TLC

VARIABLES
    self,         \* the compressor's threshold fields
    last_level,   \* the level named by the most recent set_compression_level
    all_content,  \* the caller's file map: a sequence of [path, content]
    before,       \* the caller's file map as it was when compress_repository was called
    call,         \* the last call made: [op, path, content]
    ret,          \* what the last call returned: [raised, value, summary, files]
    calls,        \* the calls of compress_repository made on the instance, in order
    report        \* the file contents section last written

vars == <<self, last_level, all_content, before, call, ret, calls, report>>

(***************************************************************************)
(* Bounds of the model.                                                    *)
(***************************************************************************)
\* the most files a file map holds
MaxFiles == 25

\* the most files a file map holds whose files are not all of one kind
MaxVaried == 5

\* the most calls of compress_repository made on one instance
MaxCalls == 2

\* the most files, all of one kind, of a map that is compressed again after a
\* change of level
MaxRelevelled == 1

\* the most lines by which a content exceeds max_lines_to_keep
MaxOver == 12

\* the most lines of a content given to the comment pass on its own
MaxLen == 8
\* the most lines above 50 of a Markdown file given to compress_markdown
MaxMdOver == 2
\* the most lines of a Python file given to compress_python on its own
MaxPyLines == 56

(***************************************************************************)
(* Lines.                                                                  *)
(***************************************************************************)
NoPath == [dir |-> "", name |-> "", i |-> 0, ext |-> ""]

Ln(k, id, n, p) == [k |-> k, id |-> id, n |-> n, p |-> p, m |-> {}]

\* the empty line ""
Blank == Ln("blank", "", 0, NoPath)
\* a simple statement `x = ...` of n characters, at column 0
Code(id, n) == Ln("code", id, n, NoPath)
\* the text of Code(id, n) followed by one trailing space
CodeWs(id, n) == Ln("code_ws", id, n, NoPath)
\* the text of Code(id, n) with one interior space doubled
CodeSp(id, n) == Ln("code_sp", id, n, NoPath)
\* a '#' comment line
Comment(id) == Ln("comment", id, 0, NoPath)
\* a '//' comment line
SlashComment(id) == Ln("slash_comment", id, 0, NoPath)
\* a line holding exactly one triple-quote delimiter
TripleQuote(id) == Ln("triple_quote", id, 0, NoPath)
\* `import <name><i>`
Import(name, i) == Ln("import", name, i, NoPath)
\* `import x from '<name><i>'`
JsImport(name, i) == Ln("js_import", name, i, NoPath)
\* `if <condition>:`, the header of a block
BlockOpen == Ln("block_open", "", 0, NoPath)
\* `    import <name><i>`, an import in the body of a block
IndentedImport(name, i) == Ln("indented_import", name, i, NoPath)
\* `from <name> import (`, the first line of a multi-line import
FromOpen(name) == Ln("from_open", name, 0, NoPath)
\* `    <name><i>,`, a continuation line of a multi-line import
Continuation(name, i) == Ln("continuation", name, i, NoPath)
\* `)`, the last line of a multi-line import
CloseParen == Ln("close_paren", "", 0, NoPath)
\* `[1, 2, ..., n]`, the JSON array of the numbers 1..n on one line
JsonCompact(n) == Ln("json_compact", "", n, NoPath)
\* `[` and `]` on lines of their own
JsonOpen == Ln("json_open", "", 0, NoPath)
JsonClose == Ln("json_close", "", 0, NoPath)
\* `<i>,` and `<i>`, an element of a JSON array on a line of its own
JsonItem(i) == Ln("json_item", "", i, NoPath)
JsonLast(i) == Ln("json_last", "", i, NoPath)
\* `  <i>,` and `  <i>`, an element as json.dumps(..., indent=2) writes it
JsonOut(i) == Ln("json_out", "", i, NoPath)
JsonOutLast(i) == Ln("json_out_last", "", i, NoPath)
\* a line of a stylesheet, by kind: css_open `a {`, css_close `}`, css_decl
\* `  prop<i>: 1;`, css_vendor `  -webkit-p<i>: 1;` (a vendor-prefixed
\* declaration on a line of its own), css_inline `b { -webkit-p1: 1; ...
\* -webkit-p<i>: 1; }` (a rule of i vendor-prefixed declarations on one line)
Css(k, i) == Ln(k, "", i, NoPath)

\* `class <name>(Base01):`, the header of a class
ClassDef(name) == Ln("class_def", name, 0, NoPath)
\* `    def <name><i>(...):`, the header of a method, and a line of its body
MethodDef(name, i) == Ln("method_def", name, i, NoPath)
MethodBody == Ln("method_body", "", 0, NoPath)
\* `def <name><i>(...):`, the header of a function, and a line of its body
FuncDef(name, i) == Ln("func_def", name, i, NoPath)
FuncBody == Ln("func_body", "", 0, NoPath)

\* the kinds of the lines the engine itself writes; all are '#' comment lines
GeneratedKinds ==
    { "more_lines", "more_comment_lines", "docstring_note", "test_summary",
      "test_lines", "test_skipped", "file_summary", "file_relevance",
      "first_few_lines", "ellipsis", "skipped_header", "files_skipped",
      "skipped_item", "duplicate_code", "duplicate_lines", "header_note",
      "header_original", "imports_summary" }

\* re.match(self.comment_pattern, line)
IsCommentLine(l) == l.k = "comment" \/ l.k \in GeneratedKinds

\* len(line); the lines the engine writes are short for the paths modelled
LineLen(l) ==
    CASE l.k = "blank" -> 0
      [] l.k = "code" -> l.n
      [] l.k = "code_ws" -> l.n + 1
      [] l.k = "code_sp" -> l.n + 1
      [] l.k = "code_cut" -> 103
      [] l.k = "close_paren" -> 1
      [] l.k = "json_compact" -> IF l.n < 10 THEN 3 * l.n ELSE 4 * l.n - 9
      [] l.k \in {"json_open", "json_close"} -> 1
      [] l.k = "json_item" -> IF l.n < 10 THEN 2 ELSE 3
      [] l.k \in {"json_last", "json_value"} -> IF l.n < 10 THEN 1 ELSE 2
      [] l.k = "json_out" -> IF l.n < 10 THEN 4 ELSE 5
      [] l.k = "json_out_last" -> IF l.n < 10 THEN 3 ELSE 4
      [] l.k = "json_empty" -> 2
      [] l.k = "json_header" -> 43
      [] l.k = "continuation_stripped" -> 16
      [] l.k = "css_open" -> 3
      [] l.k = "css_close" -> 1
      [] l.k = "css_decl" -> 12
      [] l.k = "css_vendor" -> 16
      [] l.k = "css_inline" -> 5 + 15 * l.n
      [] l.k = "css_note" -> 40
      [] OTHER -> 20

(***************************************************************************)
(* Text helpers.                                                           *)
(***************************************************************************)
\* content.splitlines(): the lines without the empty piece after a final '\n'
splitlines(content) ==
    IF content[Len(content)] = Blank
    THEN SubSeq(content, 1, Len(content) - 1)
    ELSE content

\* '\n'.join(lines)
join(lines) == IF lines = <<>> THEN <<Blank>> ELSE lines

RECURSIVE SumLen(_, _)
SumLen(lines, i) ==
    IF i > Len(lines) THEN 0 ELSE LineLen(lines[i]) + SumLen(lines, i + 1)

\* len(text)
TextLen(content) == SumLen(content, 1) + Len(content) - 1

\* lines[:k]
\* the x-th smallest element of the set places
NthOf(places, x) == CHOOSE p \in places : Cardinality({q \in places : q <= p}) = x

Take(lines, k) ==
    IF k <= 0 THEN <<>> ELSE SubSeq(lines, 1, IF k < Len(lines) THEN k ELSE Len(lines))

\* lines[-k:] for k > 0
LastOf(lines, k) ==
    IF k >= Len(lines) THEN lines ELSE SubSeq(lines, Len(lines) - k + 1, Len(lines))

(***************************************************************************)
(* Paths.                                                                  *)
(***************************************************************************)
Path(dir, name, i, ext) == [dir |-> dir, name |-> name, i |-> i, ext |-> ext]

\* '_SKIPPED_FILES_SUMMARY.txt'
SkippedSummaryPath == Path("", "_SKIPPED_FILES_SUMMARY", 0, ".txt")

\* self.language_extensions
language_extensions ==
    [e \in { ".py", ".js", ".ts", ".jsx", ".tsx", ".java", ".rb", ".go", ".rs",
             ".php", ".cs", ".cpp", ".c", ".swift", ".kt", ".scala", ".html",
             ".css", ".json", ".md", ".yml", ".yaml", ".sh", ".sql" } |->
        CASE e = ".py" -> "python"
          [] e = ".js" -> "javascript"
          [] e = ".ts" -> "typescript"
          [] e \in {".jsx", ".tsx"} -> "react"
          [] e = ".java" -> "java"
          [] e = ".rb" -> "ruby"
          [] e = ".go" -> "go"
          [] e = ".rs" -> "rust"
          [] e = ".php" -> "php"
          [] e = ".cs" -> "csharp"
          [] e = ".cpp" -> "cpp"
          [] e = ".c" -> "c"
          [] e = ".swift" -> "swift"
          [] e = ".kt" -> "kotlin"
          [] e = ".scala" -> "scala"
          [] e = ".html" -> "html"
          [] e = ".css" -> "css"
          [] e = ".json" -> "json"
          [] e = ".md" -> "markdown"
          [] e \in {".yml", ".yaml"} -> "yaml"
          [] e = ".sh" -> "bash"
          [] e = ".sql" -> "sql"]

detect_language(file_path) ==
    IF file_path.ext \in DOMAIN language_extensions
    THEN language_extensions[file_path.ext]
    ELSE "unknown"

\* 'test' in s.lower() or 'spec' in s.lower(), for a directory or file name s
LowerHasTestOrSpec(s) == s \in {"test", "tests", "Test", "spec", "Spec"}

\* 'test' in s or 'spec' in s (case-sensitive)
HasTestOrSpec(s) == s \in {"test", "tests", "spec"}

\* 'test' in file_path.lower() or 'spec' in file_path.lower()
PathLowerHasTestOrSpec(file_path) ==
    LowerHasTestOrSpec(file_path.dir) \/ LowerHasTestOrSpec(file_path.name)

(***************************************************************************)
(* The compression levels.                                                 *)
(***************************************************************************)
Levels == {"none", "light", "medium", "heavy"}

\* the fields __init__ sets
DefaultConfig ==
    [ comment_compression_ratio |-> 50,
      min_lines_for_compression |-> 15,
      import_summary_threshold |-> 5,
      duplicate_threshold |-> 3,
      max_lines_to_keep |-> 500,
      max_class_methods_to_show |-> 3,
      extremely_aggressive |-> FALSE ]

LightConfig ==
    [ comment_compression_ratio |-> 80,
      min_lines_for_compression |-> 40,
      import_summary_threshold |-> 10,
      duplicate_threshold |-> 8,
      max_lines_to_keep |-> 1000,
      max_class_methods_to_show |-> 8,
      extremely_aggressive |-> FALSE ]

MediumConfig ==
    [ comment_compression_ratio |-> 60,
      min_lines_for_compression |-> 25,
      import_summary_threshold |-> 8,
      duplicate_threshold |-> 5,
      max_lines_to_keep |-> 750,
      max_class_methods_to_show |-> 5,
      extremely_aggressive |-> FALSE ]

HeavyConfig ==
    [ comment_compression_ratio |-> 30,
      min_lines_for_compression |-> 5,
      import_summary_threshold |-> 3,
      duplicate_threshold |-> 2,
      max_lines_to_keep |-> 300,
      max_class_methods_to_show |-> 2,
      extremely_aggressive |-> TRUE ]

\* the fields of the compressor after set_compression_level(level) on fields cfg
set_compression_level(cfg, level) ==
    CASE level = "light" -> LightConfig
      [] level = "medium" -> MediumConfig
      [] level = "heavy" -> HeavyConfig
      [] OTHER -> cfg

(***************************************************************************)
(* The generic passes.                                                     *)
(***************************************************************************)
\* the index of the first triple-quote line at or after i, 0 if none
RECURSIVE NextTripleQuote(_, _)
NextTripleQuote(content, i) ==
    IF i > Len(content) THEN 0
    ELSE IF content[i].k = "triple_quote" THEN i
    ELSE NextTripleQuote(content, i + 1)

\* replace_docstring on the docstring that runs from line i to line j: the lines
\* written for lines i..j
replace_docstring(content, i, j, aggressive) ==
    IF j - i + 1 <= 3
    THEN SubSeq(content, i, j)
    ELSE << content[i],
            Ln("docstring_note", IF aggressive THEN "line docstring" ELSE "lines", j - i + 1, NoPath),
            content[j] >>

\* self.docstring_pattern.sub(replace_docstring, content), from line i on: the
\* pattern pairs each opening delimiter with the next delimiter
RECURSIVE compress_multiline_comments_from(_, _, _)
compress_multiline_comments_from(content, i, aggressive) ==
    LET a == NextTripleQuote(content, i)
        b == IF a = 0 THEN 0 ELSE NextTripleQuote(content, a + 1)
    IN  IF b = 0
        THEN SubSeq(content, i, Len(content))
        ELSE SubSeq(content, i, a - 1)
             \o replace_docstring(content, a, b, aggressive)
             \o compress_multiline_comments_from(content, b + 1, aggressive)

compress_multiline_comments(cfg, content) ==
    compress_multiline_comments_from(content, 1, cfg.extremely_aggressive)

\* the lines appended for a comment_block with the aggressive tier's test at
\* the length of the regular one
FlushCommentBlockAbove3(cfg, comment_block) ==
    IF Len(comment_block) > 3
    THEN IF cfg.extremely_aggressive
         THEN << comment_block[1],
                 Ln("more_comment_lines", "", Len(comment_block) - 1, NoPath) >>
         ELSE << comment_block[1],
                 Ln("more_comment_lines", "", Len(comment_block) - 2, NoPath),
                 comment_block[Len(comment_block)] >>
    ELSE comment_block

\* the lines appended to result_lines for an accumulated comment_block
FlushCommentBlock(cfg, comment_block) ==
    IF Len(comment_block) > 3
    THEN IF cfg.extremely_aggressive /\ Len(comment_block) > 5
         THEN << comment_block[1],
                 Ln("more_comment_lines", "", Len(comment_block) - 1, NoPath) >>
         ELSE << comment_block[1],
                 Ln("more_comment_lines", "", Len(comment_block) - 2, NoPath),
                 comment_block[Len(comment_block)] >>
    ELSE comment_block

\* the loop of compress_single_line_comments from line i on, with its remainder
\* (the lengths are read so that both lists are values before the next step)
RECURSIVE CommentLoop(_, _, _, _, _)
CommentLoop(cfg, lines, i, result_lines, comment_block) ==
    IF i > Len(lines) \/ Len(result_lines) + Len(comment_block) < 0
    THEN result_lines \o FlushCommentBlock(cfg, comment_block)
    ELSE IF IsCommentLine(lines[i])
    THEN CommentLoop(cfg, lines, i + 1, result_lines, Append(comment_block, lines[i]))
    ELSE CommentLoop(cfg, lines, i + 1,
                     Append(result_lines \o FlushCommentBlock(cfg, comment_block), lines[i]),
                     <<>>)

compress_single_line_comments(cfg, content) ==
    join(CommentLoop(cfg, splitlines(content), 1, <<>>, <<>>))

\* the last index of the run of Blank lines that starts at line a
RECURSIVE BlankRunEnd(_, _)
BlankRunEnd(content, a) ==
    IF a < Len(content) /\ content[a + 1] = Blank
    THEN BlankRunEnd(content, a + 1)
    ELSE a

\* self.blank_line_pattern.sub('\n\n', content), from line i on: a run of Blank
\* lines a..b is c consecutive newlines, one fewer at either end of the text
RECURSIVE BlankLoop(_, _)
BlankLoop(content, i) ==
    IF i > Len(content) THEN <<>>
    ELSE IF content[i] # Blank THEN <<content[i]>> \o BlankLoop(content, i + 1)
    ELSE LET b == BlankRunEnd(content, i)
             atStart == IF i = 1 THEN 1 ELSE 0
             atEnd == IF b = Len(content) THEN 1 ELSE 0
             c == (b - i + 1) + 1 - atStart - atEnd
             kept == IF c >= 3 THEN 1 + atStart + atEnd ELSE b - i + 1
         IN  [x \in 1..kept |-> Blank] \o BlankLoop(content, b + 1)

collapse_blank_lines(content) == BlankLoop(content, 1)

\* re.sub(r'[ \t]+$', '', line)
StripTrailing(l) == IF l.k = "code_ws" THEN Code(l.id, l.n) ELSE l

strip_trailing_whitespace(content) ==
    [x \in 1..Len(content) |-> StripTrailing(content[x])]

\* re.sub(r'(?<=\S)[ \t]{2,}(?=\S)', ' ', line)
CollapseSpaces(l) == IF l.k = "code_sp" THEN Code(l.id, l.n) ELSE l

\* line[:max_length] + '...' for a line longer than max_length + 20
TruncateLine(l, max_length) ==
    IF LineLen(l) > max_length + 20 THEN Ln("code_cut", l.id, 0, NoPath) ELSE l

truncate_long_lines(content, max_length) ==
    LET lines == splitlines(content)
    IN  join([x \in 1..Len(lines) |-> TruncateLine(lines[x], max_length)])

\* the passes of generic_compression that only the aggressive tier makes
aggressive_whitespace(cfg, content) ==
    IF cfg.extremely_aggressive
    THEN truncate_long_lines([x \in 1..Len(content) |-> CollapseSpaces(content[x])], 100)
    ELSE content

generic_compression(cfg, content) ==
    aggressive_whitespace(cfg,
        strip_trailing_whitespace(
            collapse_blank_lines(
                compress_single_line_comments(cfg,
                    compress_multiline_comments(cfg, content)))))

(***************************************************************************)
(* The language handlers, on the input alphabet.                           *)
(***************************************************************************)
\* the keys of self.language_handlers
language_handlers ==
    {"python", "javascript", "typescript", "json", "html", "css", "markdown"}

\* the last index of the run of lines of kind k that starts after line a
RECURSIVE RunEnd(_, _, _)
RunEnd(content, a, k) ==
    IF a < Len(content) /\ content[a + 1].k = k THEN RunEnd(content, a + 1, k) ELSE a

\* the last index of the run of lines of methods that starts after line a
RECURSIVE ClassEnd(_, _)
ClassEnd(content, a) ==
    IF a < Len(content) /\ content[a + 1].k \in {"method_def", "method_body"}
    THEN ClassEnd(content, a + 1)
    ELSE a

\* whether lines a..b are methods, each a header and a body of a line or more
HoldsMethods(content, a, b) ==
    /\ content[a].k = "method_def"
    /\ \A t \in a..b :
           content[t].k = "method_def" => (t < b /\ content[t + 1].k = "method_body")

\* whether ast.parse(content) succeeds from line i on: statements, imports and
\* comments parse; a '//' line, a JavaScript import, a truncated line and an
\* unpaired triple quote do not.  A block header needs an indented body, a
\* multi-line import its names and its closing parenthesis, and neither an
\* indented line nor a parenthesis stands alone; a class holds methods only,
\* and a method or a function a body of a line or more
RECURSIVE Parses(_, _)
Parses(content, i) ==
    IF i > Len(content) THEN TRUE
    ELSE IF content[i].k \in {"slash_comment", "js_import", "code_cut", "indented_import",
                              "continuation", "continuation_stripped", "close_paren",
                              "json_header", "css_open", "css_close", "css_decl",
                              "css_vendor", "css_inline", "css_note",
                              "method_def", "method_body", "func_body"}
    THEN FALSE
    ELSE IF content[i].k = "triple_quote"
    THEN LET b == NextTripleQuote(content, i + 1)
         IN  b # 0 /\ Parses(content, b + 1)
    ELSE IF content[i].k = "block_open"
    THEN LET b == RunEnd(content, i, "indented_import")
         IN  b > i /\ Parses(content, b + 1)
    ELSE IF content[i].k = "from_open"
    THEN LET b == RunEnd(content, i, "continuation")
         IN  b > i /\ b < Len(content) /\ content[b + 1].k = "close_paren"
             /\ Parses(content, b + 2)
    ELSE IF content[i].k = "class_def"
    THEN LET b == ClassEnd(content, i)
         IN  b > i /\ HoldsMethods(content, i + 1, b) /\ Parses(content, b + 1)
    ELSE IF content[i].k = "func_def"
    THEN LET b == RunEnd(content, i, "func_body")
         IN  b > i /\ Parses(content, b + 1)
    ELSE Parses(content, i + 1)

\* the names the loop over ast.walk(tree) collects from line i on (lines inside
\* a triple-quoted string are no nodes), one entry per imported name: the
\* module of an `import`, wherever it stands, and each name a `from` imports
RECURSIVE ImportNodes(_, _)
ImportNodes(content, i) ==
    IF i > Len(content) THEN <<>>
    ELSE IF content[i].k = "triple_quote"
    THEN LET b == NextTripleQuote(content, i + 1)
         IN  IF b = 0 THEN <<>> ELSE ImportNodes(content, b + 1)
    ELSE IF content[i].k \in {"import", "indented_import", "continuation"}
    THEN << <<content[i].id, content[i].n>> >> \o ImportNodes(content, i + 1)
    ELSE ImportNodes(content, i + 1)

\* re.sub(r'(?:^import.*$|^from.*import.*$)[\n\r]*', '', content), from line i
\* on: a line that begins with `import`, or begins with `from` and holds
\* `import`, goes with every newline that follows it
RECURSIVE RemoveImports(_, _)
RemoveImports(content, i) ==
    IF i > Len(content) THEN <<>>
    ELSE IF content[i].k \in {"import", "js_import", "from_open"}
    THEN LET b == IF i < Len(content) /\ content[i + 1] = Blank
                  THEN BlankRunEnd(content, i + 1) ELSE i
         IN  IF b = Len(content) THEN <<Blank>> ELSE RemoveImports(content, b + 1)
    ELSE <<content[i]>> \o RemoveImports(content, i + 1)

\* line.lstrip(): an indented line without its indentation
LStripLine(l) ==
    CASE l.k = "indented_import" -> Import(l.id, l.n)
      [] l.k = "continuation" -> Ln("continuation_stripped", l.id, l.n, NoPath)
      [] OTHER -> l

\* content.lstrip()
RECURSIVE lstrip(_)
lstrip(content) ==
    IF Len(content) > 1 /\ content[1] = Blank THEN lstrip(Tail(content))
    ELSE <<LStripLine(content[1])>> \o Tail(content)

\* f"# Imports summary: {', '.join(import_modules)}"
ImportsSummary(imports) ==
    [Ln("imports_summary", "", 0, NoPath) EXCEPT !.m = {imports[x] : x \in 1..Len(imports)}]

\* the import summary of compress_python
summarize_imports(cfg, content, imports) ==
    IF Parses(content, 1) /\ Len(imports) > cfg.import_summary_threshold
    THEN <<ImportsSummary(imports), Blank>> \o lstrip(RemoveImports(content, 1))
    ELSE content

\* the lines of kind k of content, in their order
Where(content, k) ==
    [j \in 1..Cardinality({x \in 1..Len(content) : content[x].k = k}) |->
        NthOf({x \in 1..Len(content) : content[x].k = k}, j)]

\* the ast.FunctionDef node whose header is line x of the content parsed
FunctionNode(content, x) ==
    [ name |-> <<content[x].id, content[x].n>>,
      top |-> content[x].k = "func_def",
      lineno |-> x,
      end_lineno |-> RunEnd(content, x, IF content[x].k = "func_def"
                                        THEN "func_body" ELSE "method_body") ]

\* the ast.FunctionDef nodes in the order of ast.walk(tree), breadth first:
\* the functions of the module, then the methods of its classes
FunctionNodes(content) ==
    [j \in 1..Len(Where(content, "func_def")) |->
        FunctionNode(content, Where(content, "func_def")[j])]
    \o [j \in 1..Len(Where(content, "method_def")) |->
        FunctionNode(content, Where(content, "method_def")[j])]

\* classes[node.name]['methods']: the names of the ast.FunctionDef nodes of
\* ast.walk(node), for the class of lines a..b
MethodNames(content, a, b) ==
    [j \in 1..Len(Where(SubSeq(content, a, b), "method_def")) |->
        FunctionNode(content, a - 1 + Where(SubSeq(content, a, b), "method_def")[j]).name]

\* the ast.ClassDef nodes in the order of ast.walk(tree)
ClassNodes(content) ==
    [j \in 1..Len(Where(content, "class_def")) |->
        [ name |-> <<content[Where(content, "class_def")[j]].id, 0>>,
          lineno |-> Where(content, "class_def")[j],
          end_lineno |-> ClassEnd(content, Where(content, "class_def")[j]),
          methods |-> MethodNames(content, Where(content, "class_def")[j],
                                  ClassEnd(content, Where(content, "class_def")[j])) ]]

\* what a call returns in place of a content when it raises IndexError
IndexError == <<>>

\* ast.get_source_segment(content, node), lines being the lines of content:
\* the lines lineno..end_lineno of content, which is not the content that was
\* parsed.  Every line of a content that holds a class or a function is of
\* the same length, so the column offsets of a class or a function of the
\* module cut nothing off these lines; the text of a method lacks the
\* indentation of its first line, and is used for its line count only
get_source_segment(lines, node) ==
    IF node.end_lineno > Len(lines) THEN IndexError
    ELSE SubSeq(lines, node.lineno, node.end_lineno)

\* content.replace(source, new), from line a on: every line of a content
\* that holds a class or a function is of the same length, so the text of
\* source occurs at the start of a line only
RECURSIVE ReplaceSource(_, _, _, _)
ReplaceSource(content, source, new, a) ==
    IF a > Len(content) THEN <<>>
    ELSE IF a + Len(source) - 1 <= Len(content)
            /\ SubSeq(content, a, a + Len(source) - 1) = source
    THEN new \o ReplaceSource(content, source, new, a + Len(source))
    ELSE <<content[a]>> \o ReplaceSource(content, source, new, a + 1)

\* name.startswith('_') and not name.startswith('__')
IsUtilityName(name) == name[1] \in {"_p", "_helper"}

\* not m.startswith('_')
IsPublicName(name) == name[1] \notin {"_p", "_helper", "__init__"}

\* f"def {name}(...):  # Utility function: {len(source.splitlines())} lines"
UtilityPlaceholder(name, line_count) ==
    [Ln("utility_function", "", line_count, NoPath) EXCEPT !.m = {name}]

\* the loop over functions.items() of the aggressive tier, from function j on;
\* lines are the lines of the content before the loop.  A private method of
\* the contents modelled has at most 5 lines, so the loop replaces functions
\* of the module only
RECURSIVE compress_utility_functions(_, _, _, _)
compress_utility_functions(content, lines, functions, j) ==
    IF j > Len(functions) \/ Len(content) < 0 THEN content
    ELSE IF /\ IsUtilityName(functions[j].name)
            /\ functions[j].top
            /\ Len(get_source_segment(lines, functions[j])) > 5
    THEN compress_utility_functions(
             ReplaceSource(content, get_source_segment(lines, functions[j]),
                           <<UtilityPlaceholder(functions[j].name,
                                 Len(get_source_segment(lines, functions[j])))>>, 1),
             lines, functions, j + 1)
    ELSE compress_utility_functions(content, lines, functions, j + 1)

\* ['__init__'] + [m for m in methods if not m.startswith('_')][:max_class_methods_to_show]
important_methods(cfg, methods) ==
    << <<"__init__", 0>> >> \o Take(SelectSeq(methods, IsPublicName), cfg.max_class_methods_to_show)

\* the index of the first line of source_lines that begins with `class`, the
\* first line if there is none
class_def_line(source_lines) ==
    IF \E x \in 1..Len(source_lines) : source_lines[x].k = "class_def"
    THEN CHOOSE x \in 1..Len(source_lines) :
             /\ source_lines[x].k = "class_def"
             /\ \A t \in 1..(x - 1) : source_lines[t].k # "class_def"
    ELSE 1

\* class_summary: the lines up to the class header (no class modelled has a
\* docstring), the names, the count of the other methods if it is positive,
\* the line count and an ellipsis
class_summary(source_lines, important, additional_methods) ==
    Take(source_lines, class_def_line(source_lines))
    \o << [Ln("key_methods", "", 0, NoPath) EXCEPT !.m = important] >>
    \o (IF additional_methods > 0
        THEN <<Ln("more_methods", "", additional_methods, NoPath)>> ELSE <<>>)
    \o << Ln("total_lines", "", Len(source_lines), NoPath),
          Ln("class_ellipsis", "", 0, NoPath) >>

\* the loop over classes.items(), from class j on; lines are the lines of the
\* content the sources were taken from
RECURSIVE summarize_classes(_, _, _, _, _)
summarize_classes(cfg, content, lines, classes, j) ==
    IF j > Len(classes) \/ Len(content) < 0 THEN content
    ELSE IF /\ Len(classes[j].methods) > cfg.max_class_methods_to_show
            /\ Len(get_source_segment(lines, classes[j])) > 30
    THEN summarize_classes(cfg,
             ReplaceSource(content, get_source_segment(lines, classes[j]),
                 class_summary(get_source_segment(lines, classes[j]),
                     important_methods(cfg, classes[j].methods),
                     Len(classes[j].methods)
                         - Len(important_methods(cfg, classes[j].methods))), 1),
             lines, classes, j + 1)
    ELSE summarize_classes(cfg, content, lines, classes, j + 1)

\* the last of nodes that has the name of node j
LastNamed(nodes, j) ==
    CHOOSE t \in j..Len(nodes) :
        /\ nodes[t].name = nodes[j].name
        /\ \A u \in (t + 1)..Len(nodes) : nodes[u].name # nodes[j].name

\* the items() of the dict the loop fills from nodes: a name stands where it
\* was first put, with the node that was put last
items(nodes) ==
    [x \in 1..Cardinality({j \in 1..Len(nodes) :
                              \A t \in 1..(j - 1) : nodes[t].name # nodes[j].name}) |->
        nodes[LastNamed(nodes,
                  NthOf({j \in 1..Len(nodes) :
                            \A t \in 1..(j - 1) : nodes[t].name # nodes[j].name}, x))]]

\* compress_python from the loop that collects functions and classes on:
\* content is the content after the imports were summarized, functions and
\* classes are the nodes of the tree parsed before.  The loop raises when a
\* node ends after the last line of content
summarize_definitions(cfg, content, functions, classes) ==
    IF \/ \E j \in 1..Len(functions) : functions[j].end_lineno > Len(splitlines(content))
       \/ \E j \in 1..Len(classes) : classes[j].end_lineno > Len(splitlines(content))
    THEN IndexError
    ELSE summarize_classes(cfg,
             IF cfg.extremely_aggressive
             THEN compress_utility_functions(content, splitlines(content), items(functions), 1)
             ELSE content,
             splitlines(content), items(classes), 1)

\* what compress_python does to content after the generic passes
python_passes(cfg, content) ==
    IF Parses(content, 1)
    THEN summarize_definitions(cfg,
             summarize_imports(cfg, content, ImportNodes(content, 1)),
             FunctionNodes(content), ClassNodes(content))
    ELSE content

compress_python(cfg, content) == python_passes(cfg, generic_compression(cfg, content))

IsNotBlank(l) == l # Blank

\* json.loads of the text whose lines other than blank ones are t: an array on
\* one line, or an array with an element per line between `[` and `]`, is
\* valid JSON; every other text of the alphabet raises JSONDecodeError
JsonLoads(t) ==
    IF Len(t) = 1 /\ t[1].k = "json_compact"
    THEN [ok |-> TRUE, data |-> [x \in 1..t[1].n |-> x]]
    ELSE IF t = <<JsonOpen, JsonClose>> \/ t = <<Ln("json_empty", "", 0, NoPath)>>
    THEN [ok |-> TRUE, data |-> <<>>]
    ELSE IF /\ Len(t) >= 3
            /\ t[1] = JsonOpen
            /\ t[Len(t)] = JsonClose
            /\ \A x \in 2..(Len(t) - 2) : t[x].k \in {"json_item", "json_out"}
            /\ t[Len(t) - 1].k \in {"json_last", "json_out_last"}
    THEN [ok |-> TRUE, data |-> [x \in 1..(Len(t) - 2) |-> t[x + 1].n]]
    ELSE [ok |-> FALSE, data |-> <<>>]

\* json.dumps(data, indent=2) for a list of numbers
JsonDumps(data) ==
    IF data = <<>> THEN <<Ln("json_empty", "", 0, NoPath)>>
    ELSE <<JsonOpen>>
         \o [x \in 1..Len(data) |->
                IF x < Len(data) THEN JsonOut(data[x]) ELSE JsonOutLast(data[x])]
         \o <<JsonClose>>

\* f"// JSON array with {len(data)} items. First 3 items:" and "... First item:"
JsonHeader(shown, count) == Ln("json_header", shown, count, NoPath)

\* compress_json with the sample taken only of arrays of more than 20 elements
compress_loaded_above_20(cfg, content, loaded) ==
    IF ~loaded.ok THEN content
    ELSE IF Len(loaded.data) > 20
    THEN <<JsonHeader("First 3 items", Len(loaded.data))>> \o JsonDumps(Take(loaded.data, 3))
    ELSE IF TextLen(content) < 1000
    THEN JsonDumps(loaded.data)
    ELSE content

\* compress_json after json.loads; the input alphabet holds no JSON object
compress_loaded(cfg, content, loaded) ==
    IF ~loaded.ok THEN content
    ELSE IF Len(loaded.data) > 10
    THEN <<JsonHeader("First 3 items", Len(loaded.data))>> \o JsonDumps(Take(loaded.data, 3))
    ELSE IF Len(loaded.data) > 3 /\ cfg.extremely_aggressive
    THEN <<JsonHeader("First item", Len(loaded.data)),
           Ln("json_value", "", loaded.data[1], NoPath)>>
    ELSE IF TextLen(content) < 1000
    THEN JsonDumps(loaded.data)
    ELSE content

compress_json(cfg, content) ==
    compress_loaded(cfg, content, JsonLoads(SelectSeq(content, IsNotBlank)))

\* len(re.findall(r'(-webkit-|-moz-|-ms-|-o-).*?;', content)): one match for
\* each prefixed declaration, wherever on its line it stands
VendorCount(content) ==
    Cardinality({xy \in (1..Len(content)) \X (1..8) :
                    \/ content[xy[1]].k = "css_vendor" /\ xy[2] = 1
                    \/ content[xy[1]].k = "css_inline" /\ xy[2] <= content[xy[1]].n})

\* re.sub(r'^\s*(?:-webkit-|-moz-|-ms-|-o-).*?;\s*$', '', content, flags=re.MULTILINE):
\* a match starts at the start of a line, runs over blank lines (\s matches
\* '\n') to a line that begins with a prefix, and ends before the last '\n' of
\* the blank lines after it; a prefixed declaration that does not begin its
\* line is not matched
RECURSIVE RemoveVendorLines(_)
RemoveVendorLines(content) ==
    IF content = <<>> THEN <<>>
    ELSE LET j == RunEnd(content, 0, "blank") + 1
             e == RunEnd(content, j, "blank")
         IN  IF j > Len(content) THEN content
             ELSE IF content[j].k # "css_vendor"
             THEN SubSeq(content, 1, j) \o RemoveVendorLines(SubSeq(content, j + 1, Len(content)))
             ELSE IF e = Len(content) THEN <<Blank>>
             ELSE IF e = j
             THEN <<Blank>> \o RemoveVendorLines(SubSeq(content, j + 1, Len(content)))
             ELSE RemoveVendorLines(<<Blank>> \o SubSeq(content, e + 1, Len(content)))

\* compress_css: the alphabet holds no CSS comment and no rule of more than 8
\* declarations, so only the vendor-prefix rule acts; it acts at every level
compress_css(cfg, content) ==
    IF VendorCount(content) > 5
    THEN <<Css("css_note", 0)>> \o RemoveVendorLines(content)
    ELSE content

\* re.match(r'^#{1,6}\s', line)
IsHeading(l) == IsCommentLine(l)

MdEllipsis == Ln("md_ellipsis", "", 0, NoPath)

\* the loop of compress_markdown from line i on (the length of result is read
\* so that the list is a value before the next step)
RECURSIVE HeadingLoop(_, _, _, _, _)
HeadingLoop(lines, i, result, in_heading_section, lines_after_heading) ==
    IF i > Len(lines) \/ Len(result) < 0 THEN result
    ELSE IF IsHeading(lines[i])
    THEN HeadingLoop(lines, i + 1, Append(result, lines[i]), TRUE, 0)
    ELSE IF in_heading_section /\ lines_after_heading < 3
    THEN HeadingLoop(lines, i + 1, Append(result, lines[i]), TRUE, lines_after_heading + 1)
    ELSE IF in_heading_section /\ lines_after_heading >= 3
    THEN HeadingLoop(lines, i + 1,
                     IF result[Len(result)] # MdEllipsis THEN Append(result, MdEllipsis) ELSE result,
                     FALSE, lines_after_heading)
    ELSE HeadingLoop(lines, i + 1, result, in_heading_section, lines_after_heading)

\* the result with the rewrite made from 50 lines on
markdown_result_from_50(cfg, content, lines, result) ==
    IF cfg.extremely_aggressive /\ Len(lines) >= 50 /\ 10 * Len(result) < 6 * Len(lines)
    THEN join(result)
    ELSE generic_compression(cfg, content)

\* what compress_markdown returns, given result, the lines its loop keeps
markdown_result(cfg, content, lines, result) ==
    IF cfg.extremely_aggressive /\ Len(lines) > 50 /\ 10 * Len(result) < 6 * Len(lines)
    THEN join(result)
    ELSE generic_compression(cfg, content)

compress_markdown(cfg, content) ==
    markdown_result(cfg, content, splitlines(content),
                    HeadingLoop(splitlines(content), 1, <<>>, FALSE, 0))

\* self.language_handlers[language](content), for the handlers of the languages
\* of the paths modelled
ApplyHandler(cfg, language, content) ==
    CASE language = "python" -> compress_python(cfg, content)
      [] language = "json" -> compress_json(cfg, content)
      [] language = "markdown" -> compress_markdown(cfg, content)
      [] language = "css" -> compress_css(cfg, content)

(***************************************************************************)
(* compress_file_content.  A call returns [raised, value]: raised says     *)
(* that the call raised an exception instead of returning value.           *)
(***************************************************************************)
Returned(value) == [raised |-> FALSE, value |-> value]

Raised == [raised |-> TRUE, value |-> <<>>]

\* the outcome of a call of a handler: an exception the handler raises goes on
\* to the caller
Outcome(compressed) == IF compressed = IndexError THEN Raised ELSE Returned(compressed)

\* the content kept when line_count > self.max_lines_to_keep
EnforceMaxLines(cfg, content) ==
    LET lines == splitlines(content)
        line_count == Len(lines)
        m == cfg.max_lines_to_keep
    IN  Take(lines, m \div 3)
        \o <<Ln("more_lines", "", line_count - ((2 * m) \div 3), NoPath)>>
        \o LastOf(lines, 0 - ((0 - m) \div 3))

\* the test-file summary of the aggressive tier
TestSummary(file_path, line_count) ==
    << Ln("test_summary", "", 0, file_path),
       Ln("test_lines", "", line_count, NoPath),
       Ln("test_skipped", "", 0, NoPath) >>

\* compress_file_content from the language detection on: content is the content
\* after the line limit and line_count the line count after it.  The log line
\* after either compression divides by before_size
compress_detected(cfg, file_path, content, line_count) ==
    IF cfg.extremely_aggressive /\ PathLowerHasTestOrSpec(file_path)
    THEN Returned(TestSummary(file_path, line_count))
    ELSE IF TextLen(content) = 0
    THEN Raised
    ELSE IF detect_language(file_path) \in language_handlers
    THEN Outcome(ApplyHandler(cfg, detect_language(file_path), content))
    ELSE Returned(generic_compression(cfg, content))

\* compress_file_content from the line limit on
compress_limited(cfg, file_path, content, line_count) ==
    IF line_count > cfg.max_lines_to_keep
    THEN compress_detected(cfg, file_path, EnforceMaxLines(cfg, content),
                           (cfg.max_lines_to_keep \div 3) * 2 + 1)
    ELSE compress_detected(cfg, file_path, content, line_count)

\* the small-file test with the tier test the wrong way round
SkipsSmallFileInAggressiveTier(cfg, line_count) ==
    line_count < cfg.min_lines_for_compression /\ cfg.extremely_aggressive

\* whether compress_file_content leaves a file of line_count lines alone
SkipsSmallFile(cfg, line_count) ==
    line_count < cfg.min_lines_for_compression /\ ~cfg.extremely_aggressive

compress_file_content(cfg, file_path, content) ==
    IF SkipsSmallFile(cfg, Len(splitlines(content)))
    THEN Returned(content)
    ELSE compress_limited(cfg, file_path, content, Len(splitlines(content)))

(***************************************************************************)
(* File maps: a dict from path to content, in insertion order.             *)
(***************************************************************************)
File(path, content) == [path |-> path, content |-> content]

keys(files) == [x \in 1..Len(files) |-> files[x].path]

KeySet(files) == {files[x].path : x \in 1..Len(files)}

\* files[path], for a path in files
Get(files, path) ==
    files[CHOOSE x \in 1..Len(files) : files[x].path = path].content

\* files[path] = content
DictSet(files, path, content) ==
    IF path \in KeySet(files)
    THEN [x \in 1..Len(files) |->
            IF files[x].path = path THEN File(path, content) ELSE files[x]]
    ELSE Append(files, File(path, content))

\* the entries of files from x on whose paths are not in gone
RECURSIVE PopAllFrom(_, _, _)
PopAllFrom(files, gone, x) ==
    IF x > Len(files) THEN <<>>
    ELSE IF files[x].path \in gone THEN PopAllFrom(files, gone, x + 1)
    ELSE <<files[x]>> \o PopAllFrom(files, gone, x + 1)

\* for f in gone: files.pop(f)
PopAll(files, gone) == PopAllFrom(files, gone, 1)

\* sorted(seq, key=lambda x: x[1], reverse=True), for a sequence of pairs:
\* stable, so pairs of equal key keep their order
RECURSIVE InsertByKey(_, _)
InsertByKey(sorted, e) ==
    IF sorted = <<>> THEN <<e>>
    ELSE IF sorted[Len(sorted)][2] >= e[2] THEN Append(sorted, e)
    ELSE Append(InsertByKey(SubSeq(sorted, 1, Len(sorted) - 1), e), sorted[Len(sorted)])

RECURSIVE SortedDescFrom(_, _, _)
SortedDescFrom(seq, x, acc) ==
    IF x > Len(seq) \/ Len(acc) < 0 THEN acc
    ELSE SortedDescFrom(seq, x + 1, InsertByKey(acc, seq[x]))

\* the pairs left in the order of the map, as if the sort were skipped
InInputOrder(seq) == seq

SortedDesc(seq) == SortedDescFrom(seq, 1, <<>>)

(***************************************************************************)
(* analyze_file_importance and the reference count.                        *)
(***************************************************************************)
\* whether the decimal digits of a (none for 0) begin those of b, for b < 100
DigitsPrefix(a, b) == a = 0 \/ a = b \/ (b >= 10 /\ b \div 10 = a)

\* whether the text of line l begins, after `import `, with the stem of path
ImportsStem(l, path) ==
    l.k \in {"import", "indented_import"} /\ l.id = path.name /\ DigitsPrefix(path.i, l.n)

\* whether line l holds `from '` followed by the stem of path
FromQuoteStem(l, path) ==
    l.k = "js_import" /\ l.id = path.name /\ DigitsPrefix(path.i, l.n)

\* what one other file adds to stats['imports'][file_path]
ImportsFrom(file_path, other_content) ==
    (IF \E x \in 1..Len(other_content) : ImportsStem(other_content[x], file_path)
     THEN 1 ELSE 0)
    +
    (IF /\ \E x \in 1..Len(other_content) : other_content[x].k \in {"import", "js_import", "indented_import", "from_open"}
        /\ \E x \in 1..Len(other_content) : FromQuoteStem(other_content[x], file_path)
     THEN 1 ELSE 0)

RECURSIVE ImportCountFrom(_, _, _)
ImportCountFrom(all, file_path, x) ==
    IF x > Len(all) THEN 0
    ELSE (IF all[x].path # file_path THEN ImportsFrom(file_path, all[x].content) ELSE 0)
         + ImportCountFrom(all, file_path, x + 1)

\* stats['imports'].get(file_path, 0)
import_count(all, file_path) == ImportCountFrom(all, file_path, 1)

\* filename.lower()
NameLower(name) == IF name = "Test" THEN "test" ELSE IF name = "Spec" THEN "spec" ELSE name

\* the score with the test rule tried before the extension rule
analyze_file_importance_test_first(file_path, imports) ==
    IF file_path.i = 0 /\ <<NameLower(file_path.name), file_path.ext>> \in
           { <<"main", ".py">>, <<"app", ".py">>, <<"index", ".js">>,
             <<"server", ".js">>, <<"app", ".js">> }
    THEN 10
    ELSE IF HasTestOrSpec(file_path.name)
    THEN 3
    ELSE IF file_path.ext \in {".py", ".js", ".ts", ".jsx", ".tsx"}
    THEN 8
    ELSE IF imports > 5
    THEN 7
    ELSE 5

analyze_file_importance(file_path, imports) ==
    IF file_path.i = 0 /\ <<NameLower(file_path.name), file_path.ext>> \in
           { <<"main", ".py">>, <<"app", ".py">>, <<"index", ".js">>,
             <<"server", ".js">>, <<"app", ".js">> }
    THEN 10
    ELSE IF file_path.ext \in {".py", ".js", ".ts", ".jsx", ".tsx"}
    THEN 8
    ELSE IF file_path.i = 0 /\ <<file_path.name, file_path.ext>> \in
           { <<"config", ".js">>, <<"config", ".py">>, <<"settings", ".py">> }
    THEN 7
    ELSE IF imports > 5
    THEN 7
    ELSE IF HasTestOrSpec(file_path.name)
    THEN 3
    ELSE 5

(***************************************************************************)
(* find_duplicate_code.                                                    *)
(***************************************************************************)
\* not stripped or stripped.startswith(('#', '//', '/*', '*'))
IsChunkDelimiter(l) ==
    l.k = "blank" \/ IsCommentLine(l) \/ l.k \in {"slash_comment", "css_note"}

\* the chunks the loop over the lines of one file appends, from line i on, with
\* current_chunk the lines from line s to line i - 1; a chunk is appended when
\* it is substantial
RECURSIVE ChunkLoop(_, _, _, _)
ChunkLoop(file_path, lines, i, s) ==
    LET current_chunk == SubSeq(lines, s, i - 1)
        appended == IF current_chunk # <<>> /\ TextLen(current_chunk) > 50
                    THEN << <<file_path, current_chunk>> >>
                    ELSE <<>>
    IN  IF i > Len(lines) THEN appended
        ELSE IF IsChunkDelimiter(lines[i])
        THEN appended \o ChunkLoop(file_path, lines, i + 1, i + 1)
        ELSE ChunkLoop(file_path, lines, i + 1, s)

\* chunks after the loop over the files from file x on
RECURSIVE AllChunks(_, _)
AllChunks(all, x) ==
    IF x > Len(all) THEN <<>>
    ELSE ChunkLoop(all[x].path, splitlines(all[x].content), 1, 1) \o AllChunks(all, x + 1)

\* duplicates after the hashing loop: a sequence of [content, files] in the
\* order in which the entries are made.  md5 is taken to be free of collisions,
\* so a chunk's text stands for its hash.  The loop makes the entry of a chunk
\* at its second occurrence, with the file of its first occurrence, and appends
\* the file of the second and of every later occurrence
DuplicatesOf(chunks) ==
    LET Earlier(x) == {y \in 1..(x - 1) : chunks[y][2] = chunks[x][2]}
        IsSecond(x) == Cardinality(Earlier(x)) = 1
        seconds == SelectSeq([x \in 1..Len(chunks) |-> x], IsSecond)
        FilesOf(chunk) ==
            LET Same(c) == c[2] = chunk
                occurrences == SelectSeq(chunks, Same)
            IN  [y \in 1..Len(occurrences) |-> occurrences[y][1]]
    IN  [d \in 1..Len(seconds) |->
            [content |-> chunks[seconds[d]][2], files |-> FilesOf(chunks[seconds[d]][2])]]

find_duplicate_code(all) == DuplicatesOf(AllChunks(all, 1))

(***************************************************************************)
(* analyze_repository and generate_repository_summary.                     *)
(***************************************************************************)
\* stats['languages'] after the files from x on: a sequence of <<language, count>>
\* in order of first appearance
RECURSIVE LanguageLoop(_, _, _)
LanguageLoop(all, x, languages) ==
    IF x > Len(all) \/ Len(languages) < 0 THEN languages
    ELSE LET language == detect_language(all[x].path)
             at == {y \in 1..Len(languages) : languages[y][1] = language}
         IN  LanguageLoop(all, x + 1,
                 IF at = {} THEN Append(languages, <<language, 1>>)
                 ELSE [y \in 1..Len(languages) |->
                         IF y \in at THEN <<language, languages[y][2] + 1>> ELSE languages[y]])

\* the statistics, each per file in the order of the file map
analyze_repository(all) ==
    [ file_size |-> [x \in 1..Len(all) |-> Len(splitlines(all[x].content))],
      imports |-> [x \in 1..Len(all) |-> import_count(all, all[x].path)],
      importance |-> [x \in 1..Len(all) |->
          <<all[x].path, analyze_file_importance(all[x].path, import_count(all, all[x].path))>>],
      languages |-> LanguageLoop(all, 1, <<>>),
      largest_files |-> Take(SortedDesc([x \in 1..Len(all) |->
                                 <<all[x].path, Len(splitlines(all[x].content))>>]), 10),
      duplicates |-> find_duplicate_code(all) ]

RECURSIVE SumSeq(_, _)
SumSeq(seq, x) == IF x > Len(seq) THEN 0 ELSE seq[x] + SumSeq(seq, x + 1)

\* seq without the pairs whose first element is v
RECURSIVE WithoutFirst(_, _, _)
WithoutFirst(seq, v, x) ==
    IF x > Len(seq) THEN <<>>
    ELSE IF seq[x][1] = v THEN WithoutFirst(seq, v, x + 1)
    ELSE <<seq[x]>> \o WithoutFirst(seq, v, x + 1)

\* the summary text, as the values its lines state
generate_repository_summary(cfg, repo_stats, all) ==
    LET lang_counts == SortedDesc(WithoutFirst(repo_stats.languages, "unknown", 1))
        dups == repo_stats.duplicates
    IN  [ total_files |-> Len(all),
          total_lines |-> SumSeq(repo_stats.file_size, 1),
          main_languages |-> Take(lang_counts, 3),
          other_languages |-> IF Len(lang_counts) > 3 THEN Len(lang_counts) - 3 ELSE 0,
          largest_file |-> Take(repo_stats.largest_files, 1),
          key_files |-> Take(SortedDesc(repo_stats.importance), 5),
          dup_count |-> Len(dups),
          total_dup_lines |-> SumSeq([d \in 1..Len(dups) |-> Len(dups[d].content)], 1),
          heavy_note |-> cfg.extremely_aggressive ]

(***************************************************************************)
(* compress_repository.                                                    *)
(***************************************************************************)
\* the importance lookup of an instance that keeps the scores of its first
\* call: every later call finds no score and takes the default
ImportanceOfFirstCall(repo_stats, file_path, default) ==
    LET at == {x \in 1..Len(repo_stats.importance) : repo_stats.importance[x][1] = file_path}
    IN  IF at = {} \/ calls # <<>> THEN default
        ELSE repo_stats.importance[CHOOSE x \in at : TRUE][2]

\* repo_stats['importance'].get(file_path, default)
ImportanceOf(repo_stats, file_path, default) ==
    LET at == {x \in 1..Len(repo_stats.importance) : repo_stats.importance[x][1] = file_path}
    IN  IF at = {} THEN default ELSE repo_stats.importance[CHOOSE x \in at : TRUE][2]

add_compression_header(file_path, content) ==
    << Ln("header_note", "", 0, NoPath), Ln("header_original", "", 0, file_path), Blank >>
    \o content

\* the content of '_SKIPPED_FILES_SUMMARY.txt'
SkippedSummary(skipped_files) ==
    << Ln("skipped_header", "", Len(skipped_files), NoPath), Blank,
       Ln("files_skipped", "", 0, NoPath) >>
    \o [x \in 1..Len(skipped_files) |-> Ln("skipped_item", "", 0, skipped_files[x])]

\* seq without the elements in gone, in order
RECURSIVE NotIn(_, _, _)
NotIn(seq, gone, x) ==
    IF x > Len(seq) THEN <<>>
    ELSE IF seq[x] \in gone THEN NotIn(seq, gone, x + 1)
    ELSE <<seq[x]>> \o NotIn(seq, gone, x + 1)

\* the number of files above which the aggressive tier drops files
CapAbove == 20

\* the number of files the aggressive tier keeps
TopFiles == 15

\* the limit test with the number of files kept as its threshold
LimitsFilesAboveTop(cfg, all) == cfg.extremely_aggressive /\ Len(all) > TopFiles

\* whether the aggressive tier limits the map to the top important files
LimitsFiles(cfg, all) == cfg.extremely_aggressive /\ Len(all) > CapAbove

\* the map after the summary of the skipped files is set and they are popped
DropSkipped(all, skipped_files) ==
    IF skipped_files # <<>>
    THEN PopAll(DictSet(all, SkippedSummaryPath, SkippedSummary(skipped_files)),
                {skipped_files[x] : x \in 1..Len(skipped_files)})
    ELSE all

\* top_files, given files_by_importance
TopOf(files_by_importance) ==
    {files_by_importance[x][1] :
        x \in 1..(IF Len(files_by_importance) < TopFiles
                  THEN Len(files_by_importance) ELSE TopFiles)}

\* the caller's map after the heavy-tier block: the skipped files are popped
\* from it and the summary entry is set in it
LimitToTopFiles(cfg, repo_stats, all) ==
    IF LimitsFiles(cfg, all)
    THEN DropSkipped(all,
             NotIn(keys(all),
                   TopOf(SortedDesc([x \in 1..Len(all) |->
                       <<all[x].path, ImportanceOf(repo_stats, all[x].path, 0)>>])),
                   1))
    ELSE all

\* the low-importance summary written in place of a file
FileSummary(file_path, content) ==
    << Ln("file_summary", detect_language(file_path), Len(splitlines(content)), file_path),
       Ln("file_relevance", "", 0, NoPath), Blank,
       Ln("first_few_lines", "", 0, NoPath) >>
    \o Take(splitlines(content), 10)
    \o << Blank, Ln("ellipsis", "", 0, NoPath) >>

\* the content the loop body hands to compress_file_content: behind the header
\* for a file of medium importance in the aggressive tier
ContentToCompress(cfg, importance, file_path, content) ==
    IF importance < 8 /\ importance >= 5 /\ cfg.extremely_aggressive
    THEN add_compression_header(file_path, content)
    ELSE content

\* whether the loop body writes a summary in place of the file
SummarizesFile(cfg, importance, content) ==
    importance < 5 /\ Len(splitlines(content)) > 30 /\ cfg.extremely_aggressive

\* what the loop body computes for one file of the given importance: [raised, value]
compress_by_importance(cfg, importance, file_path, content) ==
    IF SummarizesFile(cfg, importance, content)
    THEN Returned(FileSummary(file_path, content))
    ELSE compress_file_content(cfg, file_path,
                               ContentToCompress(cfg, importance, file_path, content))

\* the loop body for one file of the working map
CompressOne(cfg, repo_stats, file_path, content) ==
    compress_by_importance(cfg, ImportanceOf(repo_stats, file_path, 5), file_path, content)

(***************************************************************************)
(* Duplicate substitution.                                                 *)
(***************************************************************************)
\* whether the text of line l begins with the text of line c: among the lines
\* modelled, a statement begins the same statement with a trailing space, and
\* an import begins the import of a longer name
StartsWith(l, c) ==
    \/ l = c
    \/ c.k = "code" /\ l = CodeWs(c.id, c.n)
    \/ c.k = "import" /\ l.k = "import" /\ l.id = c.id /\ DigitsPrefix(c.n, l.n)

\* whether the text of chunk occurs in text at line a
MatchAt(text, chunk, a) ==
    /\ a + Len(chunk) - 1 <= Len(text)
    /\ \A x \in 1..(Len(chunk) - 1) : text[a + x - 1] = chunk[x]
    /\ StartsWith(text[a + Len(chunk) - 1], chunk[Len(chunk)])

\* chunk in compressed
Contains(text, chunk) == \E a \in 1..Len(text) : MatchAt(text, chunk, a)

\* what is left of line l after the text of line c at its start
Remainder(l, c) == IF l = c THEN Blank ELSE Ln("remainder", l.id, l.n, NoPath)

\* compressed.replace(chunk, replacement), from line a on; replacement is two
\* lines and a final newline
RECURSIVE ReplaceFrom(_, _, _, _)
ReplaceFrom(text, chunk, replacement, a) ==
    IF a > Len(text) THEN <<>>
    ELSE IF MatchAt(text, chunk, a)
    THEN LET b == a + Len(chunk) - 1
         IN  replacement \o <<Remainder(text[b], chunk[Len(chunk)])>>
             \o ReplaceFrom(text, chunk, replacement, b + 1)
    ELSE <<text[a]>> \o ReplaceFrom(text, chunk, replacement, a + 1)

\* f"# DUPLICATE CODE: Same as in {files[0]}\n# {len(chunk.splitlines())} lines\n"
DuplicateMarker(first, chunk) ==
    << Ln("duplicate_code", "", 0, first), Ln("duplicate_lines", "", Len(chunk), NoPath) >>

\* compressed_content after the loop over dup_info['files'][1:]: the loop
\* replaces the chunk in each file it names that is in compressed_content and
\* still holds the chunk; a file named twice holds no chunk the second time
ReplaceInFiles(compressed_content, dup_info) ==
    LET others == {dup_info.files[y] : y \in 2..Len(dup_info.files)}
        chunk == dup_info.content
    IN  [x \in 1..Len(compressed_content) |->
            IF compressed_content[x].path \in others
               /\ Contains(compressed_content[x].content, chunk)
            THEN File(compressed_content[x].path,
                      ReplaceFrom(compressed_content[x].content, chunk,
                                  DuplicateMarker(dup_info.files[1], chunk), 1))
            ELSE compressed_content[x]]

\* the loop over repo_stats['duplicates'] from its entry d on
RECURSIVE HandleDuplicates(_, _, _, _)
HandleDuplicates(cfg, duplicates, d, compressed_content) ==
    IF d > Len(duplicates) \/ Len(compressed_content) < 0 THEN compressed_content
    ELSE HandleDuplicates(cfg, duplicates, d + 1,
             IF Len(duplicates[d].files) >= cfg.duplicate_threshold
             THEN ReplaceInFiles(compressed_content, duplicates[d])
             ELSE compressed_content)

\* the end of compress_repository: results holds what the loop body computed
\* for each file of the working map; an exception raised for a file leaves
\* the call
finish_repository(cfg, repo_stats, working, results) ==
    IF \E x \in 1..Len(working) : results[x].raised
    THEN [raised |-> TRUE, files |-> <<>>, all_content |-> working]
    ELSE [raised |-> FALSE,
          files |-> HandleDuplicates(cfg, repo_stats.duplicates, 1,
                        [x \in 1..Len(working) |-> File(working[x].path, results[x].value)]),
          all_content |-> working]

\* compress_repository from the loop over the working map on
compress_working(cfg, repo_stats, working) ==
    finish_repository(cfg, repo_stats, working,
        [x \in 1..Len(working) |->
            CompressOne(cfg, repo_stats, working[x].path, working[x].content)])

\* compress_repository after the analysis
compress_analyzed(cfg, repo_stats, all) ==
    [summary |-> generate_repository_summary(cfg, repo_stats, all)]
    @@ compress_working(cfg, repo_stats, LimitToTopFiles(cfg, repo_stats, all))

\* compress_repository(all_content): [raised, summary, files, all_content], where
\* files is the compressed map returned and all_content the caller's map after
\* the call
compress_repository(cfg, all) == compress_analyzed(cfg, analyze_repository(all), all)

(***************************************************************************)
(* The report: the file contents section as main.py and                    *)
(* compress_analysis_output write and read it.                             *)
(***************************************************************************)
\* a line of the section, by kind: report_header `File Contents:`, file_line
\* `File: <path>`, content_marker `Content:`
ReportLine(k, path) == Ln(k, "", 0, path)

\* the blocks f"File: {file_path}\nContent:\n{content}\n\n" of the files from x on
RECURSIVE FileBlocks(_, _)
FileBlocks(files, x) ==
    IF x > Len(files) THEN <<>>
    ELSE <<ReportLine("file_line", files[x].path), ReportLine("content_marker", NoPath)>>
         \o files[x].content \o <<Blank>> \o FileBlocks(files, x + 1)

\* compressed_file_contents after the loop over compressed_files.items()
SerializeFiles(files) ==
    <<ReportLine("report_header", NoPath)>> \o FileBlocks(files, 1) \o <<Blank>>

\* text.rstrip(), for a text that is lines or the empty sequence
RECURSIVE rstrip(_)
rstrip(content) ==
    IF content = <<>> THEN <<Blank>>
    ELSE IF Len(content) > 1 /\ content[Len(content)] = Blank
    THEN rstrip(SubSeq(content, 1, Len(content) - 1))
    ELSE SubSeq(content, 1, Len(content) - 1) \o <<StripTrailing(content[Len(content)])>>

\* the last line of group 2 of file_pattern for a block whose content starts
\* at line a: the group ends before the first '\n\nFile: ', or at the end
RECURSIVE ContentEnd(_, _)
ContentEnd(lines, a) ==
    IF a >= Len(lines) THEN Len(lines)
    ELSE IF a + 2 <= Len(lines) /\ lines[a + 1] = Blank /\ lines[a + 2].k = "file_line"
    THEN a
    ELSE ContentEnd(lines, a + 1)

\* files_content after the loop over re.finditer(file_pattern, section), from
\* line i of the section on: a match starts at a 'File: ' that a 'Content:'
\* line follows, and both groups are stripped
RECURSIVE ParseBlocks(_, _)
ParseBlocks(lines, i) ==
    IF i >= Len(lines) THEN <<>>
    ELSE IF lines[i].k = "file_line" /\ lines[i + 1].k = "content_marker"
    THEN <<File(lines[i].p,
                rstrip(lstrip(rstrip(SubSeq(lines, i + 2, ContentEnd(lines, i + 2))))))>>
         \o ParseBlocks(lines, ContentEnd(lines, i + 2) + 1)
    ELSE ParseBlocks(lines, i + 1)

\* files_content parsed from the section "File Contents:" + rest.strip()
ParseFiles(section) == ParseBlocks(rstrip(Tail(section)), 1)

(***************************************************************************)
(* The inputs: contents and paths the calls are made with.                 *)
(***************************************************************************)
\* ten statements between them longer than 50 characters
Chunk == [x \in 1..10 |-> Code("shared", 5)]

\* ten statements of exactly 50 characters with their newlines
Chunk50 == [x \in 1..10 |-> Code("fifty", IF x = 1 THEN 5 ELSE 4)]

\* ten statements, the third of which has a trailing space
ChunkWs == [x \in 1..10 |-> IF x = 3 THEN CodeWs("spaced", 5) ELSE Code("spaced", 5)]

\* five short statements and a blank line
Preamble == [x \in 1..5 |-> Code("own", 3)] \o <<Blank>>

ContentNames ==
    { "empty", "newline", "chunk", "chunk50", "padded_chunk", "padded_chunk_ws",
      "chunk_twice", "comments", "imports", "docstring", "blank_lines", "long_line",
      "imports_indented", "imports_multiline", "imports_first", "statements32",
      "imports_both", "imports_test",
      "json15_compact", "json15_lines", "json15_spread", "json4_lines", "json2_spread",
      "css6_lines", "css4_lines", "css6_inline", "css_spread" }

\* the contents that are JSON documents or stylesheets
JsonContentNames ==
    {"json15_compact", "json15_lines", "json15_spread", "json4_lines", "json2_spread",
     "css6_lines", "css4_lines", "css6_inline", "css_spread"}

\* the array of the numbers 1..n with an element per line, each element
\* followed by gap blank lines
JsonLines(n, gap) ==
    <<JsonOpen>>
    \o [x \in 1..(n * (gap + 1)) |->
           IF x % (gap + 1) # 1 /\ gap > 0 THEN Blank
           ELSE IF (x - 1) \div (gap + 1) + 1 < n THEN JsonItem((x - 1) \div (gap + 1) + 1)
           ELSE JsonLast(n)]
    \o <<JsonClose>>

ContentOf(c) ==
    CASE c = "empty" -> <<Blank>>
      [] c = "newline" -> <<Blank, Blank>>
      [] c = "chunk" -> Chunk
      [] c = "chunk50" -> Chunk50
      [] c = "padded_chunk" -> Preamble \o Chunk
      [] c = "padded_chunk_ws" -> Preamble \o ChunkWs
      [] c = "chunk_twice" -> Chunk \o <<Blank>> \o Chunk
      [] c = "comments" -> [x \in 1..6 |-> Comment("note")] \o <<Code("own", 3), CodeSp("own", 4)>>
      [] c = "imports" -> [x \in 1..4 |-> Import("mod", x)] \o <<Blank, Code("own", 3), Blank>>
      [] c = "docstring" -> <<TripleQuote("doc")>> \o [x \in 1..3 |-> Code("text", 4)]
                            \o <<TripleQuote("end"), SlashComment("js")>>
      [] c = "blank_lines" -> <<Code("own", 3), Blank, Blank, Blank, CodeWs("own", 3), Blank>>
      [] c = "long_line" -> <<Code("long", 130), Code("own", 3)>>
      [] c = "imports_indented" ->
             [x \in 1..3 |-> Import("mod", x)]
             \o <<BlockOpen, IndentedImport("mod", 4), Code("own", 3)>>
      [] c = "imports_multiline" ->
             [x \in 1..3 |-> Import("mod", x)]
             \o <<FromOpen("pkg"), Continuation("alpha", 1), Continuation("alpha", 2),
                  CloseParen, Code("own", 3)>>
      [] c = "json15_compact" -> <<JsonCompact(15)>>
      [] c = "json15_lines" -> JsonLines(15, 0)
      [] c = "json15_spread" -> JsonLines(15, 2)
      [] c = "json4_lines" -> JsonLines(4, 0)
      [] c = "json2_spread" -> JsonLines(2, 20)
      [] c = "css6_lines" ->
             <<Css("css_open", 0)>> \o [x \in 1..6 |-> Css("css_vendor", x)]
             \o <<Css("css_decl", 1), Css("css_close", 0)>>
      [] c = "css4_lines" ->
             <<Css("css_open", 0)>> \o [x \in 1..4 |-> Css("css_vendor", x)]
             \o <<Css("css_decl", 1), Css("css_close", 0)>>
      [] c = "css6_inline" -> <<Css("css_inline", 6)>>
      [] c = "css_spread" ->
             <<Css("css_open", 0), Blank, Css("css_vendor", 1), Blank, Blank,
               Css("css_vendor", 2), Css("css_vendor", 3), Blank, Css("css_decl", 1),
               Css("css_vendor", 4), Css("css_vendor", 5), Css("css_close", 0),
               Css("css_inline", 1), Css("css_vendor", 6), Blank, Blank>>
      [] c = "imports_both" -> <<Import("mod", 1), JsImport("mod", 1), Code("own", 3)>>
      [] c = "imports_test" -> <<Import("test", 1), Code("own", 3)>>
      [] c = "statements32" -> [x \in 1..32 |-> Code("own", 3)]
      [] c = "imports_first" ->
             <<FromOpen("pkg"), Continuation("alpha", 1), Continuation("alpha", 2),
               CloseParen, Import("mod", 1), Import("mod", 2), Code("own", 3), Blank>>

\* the paths compress_file_content is called with
FilePaths ==
    { Path("", "mod", 1, ".py"), Path("", "notes", 1, ".txt"),
      Path("", "data", 1, ".json"), Path("", "README", 0, ".md"),
      Path("", "style", 1, ".css"),
      Path("", "test", 1, ".py"), Path("tests", "mod", 1, ".py"),
      Path("", "Test", 1, ".txt") }

\* the calls of compress_file_content made: a JSON document holds a long list
\* literal and a stylesheet rule reads as a dict literal, which no Python file
\* modelled holds
Inputs ==
    {pc \in FilePaths \X ContentNames :
        pc[2] \in JsonContentNames => detect_language(pc[1]) # "python"}

\* the kinds of file a file map is built from: <<name, extension, content>>
FileKinds ==
    { <<"mod", ".py", "chunk">>, <<"mod", ".py", "padded_chunk">>,
      <<"mod", ".py", "padded_chunk_ws">>, <<"mod", ".py", "empty">>,
      <<"mod", ".py", "chunk_twice">>, <<"mod", ".py", "chunk50">>,
      <<"notes", ".txt", "chunk">>, <<"notes", ".txt", "comments">>,
      <<"notes", ".txt", "imports">>, <<"test", ".txt", "chunk">>,
      <<"main", ".py", "padded_chunk">>, <<"data", ".json", "json15_compact">>,
      <<"test", ".txt", "statements32">> }

\* the file of kind k added as file number x of a map
FileOfKind(k, x) ==
    File(Path("", k[1], IF k[1] \in {"main", "config"} THEN 0 ELSE x, k[2]), ContentOf(k[3]))

KindOf(f) == <<f.path.name, f.path.ext, f.content>>

\* whether all files of a map are of one kind
OneKind(files) == \A x \in 1..Len(files) : KindOf(files[x]) = KindOf(files[1])

\* the maps built: up to MaxFiles files of one kind, or up to MaxVaried files
\* in which the files after the first are of one kind, or more than CapAbove
\* files of one kind but for main.py as the last file; a map that holds a
\* file of 32 statements has at most MaxVaried files
InFamily(files) ==
    /\ Len(files) <= MaxFiles
    /\ (\E x \in 1..Len(files) : files[x].content = ContentOf("statements32"))
       => Len(files) <= MaxVaried
    /\ \/ OneKind(files)
       \/ Len(files) <= MaxVaried /\ OneKind(Tail(files))
       \/ /\ Len(files) > CapAbove
          /\ OneKind(SubSeq(files, 1, Len(files) - 1))
          /\ files[Len(files)].path.name = "main"

(***************************************************************************)
(* The state machine.                                                      *)
(***************************************************************************)
NoCall == [op |-> "none", path |-> NoPath, content |-> <<Blank>>]

NoSummary == generate_repository_summary(DefaultConfig, analyze_repository(<<>>), <<>>)

NoReturn == [raised |-> FALSE, value |-> <<>>, summary |-> NoSummary, files |-> <<>>]

\* the threshold fields after a call that puts back the defaults of __init__
fields_reset_by_call(cfg) == DefaultConfig

\* the threshold fields after compress_file_content, compress_repository and
\* the methods they call: none of them assigns a field of self
fields_after_call(cfg) == cfg

Init ==
    /\ self = DefaultConfig
    /\ last_level = "unset"
    /\ all_content = <<>>
    /\ before = <<>>
    /\ call = NoCall
    /\ ret = NoReturn
    /\ calls = <<>>
    /\ report = <<>>

\* compressor.set_compression_level(level)
SetCompressionLevel(level) ==
    /\ \/ call.op = "none" /\ all_content = <<>>
       \/ call.op = "compress_repository" /\ Len(calls) < MaxCalls
          /\ Len(before) <= MaxRelevelled /\ OneKind(before)
    /\ self' = set_compression_level(self, level)
    /\ last_level' = level
    /\ UNCHANGED <<all_content, before, call, ret, calls, report>>

\* the caller puts one more file in the file map; a caller that compresses a
\* repository has not chosen the level none (main.py bypasses the engine then)
AddFile(k) ==
    /\ call.op = "none"
    /\ last_level # "none"
    /\ LET f == FileOfKind(k, Len(all_content) + 1)
       IN  /\ f.path \notin KeySet(all_content)
           /\ InFamily(Append(all_content, f))
           /\ all_content' = Append(all_content, f)
    /\ UNCHANGED <<self, last_level, before, call, ret, calls, report>>

\* compressor.compress_file_content(file_path, content)
CompressFileContent(file_path, content) ==
    /\ call.op = "none"
    /\ all_content = <<>>
    /\ call' = [op |-> "compress_file_content", path |-> file_path, content |-> content]
    /\ \E r \in {compress_file_content(self, file_path, content)} :
           ret' = [NoReturn EXCEPT !.raised = r.raised, !.value = r.value]
    /\ self' = fields_after_call(self)
    /\ UNCHANGED <<last_level, all_content, before, calls, report>>

\* compressor.compress_repository(files_content): the caller passes the map it
\* holds or, for a later call, a copy it kept of the map it passed before
CompressRepository(files_content) ==
    /\ call.op \in {"none", "compress_repository"}
    /\ Len(calls) < MaxCalls
    /\ files_content = all_content \/ (calls # <<>> /\ files_content = before)
    /\ call' = [NoCall EXCEPT !.op = "compress_repository"]
    /\ before' = files_content
    /\ \E r \in {compress_repository(self, files_content)} :
           /\ all_content' = r.all_content
           /\ ret' = [raised |-> r.raised, value |-> <<>>, summary |-> r.summary, files |-> r.files]
           /\ calls' = Append(calls, [cfg |-> self, files_content |-> files_content,
                                      raised |-> r.raised, summary |-> r.summary,
                                      files |-> r.files])
    /\ self' = fields_after_call(self)
    /\ UNCHANGED <<last_level, report>>

\* the caller writes the compressed files as the file contents section
WriteReport ==
    /\ call.op = "compress_repository"
    /\ ~ret.raised
    /\ call' = [NoCall EXCEPT !.op = "write_report"]
    /\ report' = SerializeFiles(ret.files)
    /\ UNCHANGED <<self, last_level, all_content, before, ret, calls>>

\* the caller parses the section written into a file map
ParseReport ==
    /\ call.op = "write_report"
    /\ call' = [NoCall EXCEPT !.op = "parse_report"]
    /\ all_content' = ParseFiles(report)
    /\ UNCHANGED <<self, last_level, before, ret, calls, report>>

Next ==
    \/ \E level \in Levels : SetCompressionLevel(level)
    \/ \E k \in FileKinds : AddFile(k)
    \/ \E file_path \in FilePaths, c \in ContentNames :
           /\ <<file_path, c>> \in Inputs
           /\ CompressFileContent(file_path, ContentOf(c))
    \/ \E files_content \in {all_content, before} : CompressRepository(files_content)
    \/ WriteReport
    \/ ParseReport

Spec == Init /\ [][Next]_vars

(***************************************************************************)
(* The line limit on its own: the contents it applies to have more than    *)
(* 300 lines, so the step is taken on contents of distinct statements      *)
(* around max_lines_to_keep lines, without the passes that follow it.      *)
(***************************************************************************)
\* a content of line_count statements, no two alike
Statements(line_count) == [x \in 1..line_count |-> Code("line", x + 2)]

\* the `if line_count > self.max_lines_to_keep` step of compress_file_content
EnforceLineLimit(content) ==
    /\ call.op = "none"
    /\ all_content = <<>>
    /\ call' = [NoCall EXCEPT !.op = "enforce_max_lines", !.content = content]
    /\ ret' = [NoReturn EXCEPT !.value =
                  IF Len(splitlines(content)) > self.max_lines_to_keep
                  THEN EnforceMaxLines(self, content)
                  ELSE content]
    /\ UNCHANGED <<self, last_level, all_content, before, calls, report>>

LimitNext ==
    \/ \E level \in Levels : SetCompressionLevel(level)
    \/ \E over \in -1..MaxOver :
           EnforceLineLimit(Statements(self.max_lines_to_keep + over))

LimitSpec == Init /\ [][LimitNext]_vars

(***************************************************************************)
(* The comment pass on its own, on every content of up to MaxLen lines     *)
(* that are comments or statements, no two alike, with or without a final  *)
(* newline.                                                                *)
(***************************************************************************)
\* the content of line_count lines whose lines numbered in comments are
\* comments, ending in a newline if newline
Commented(line_count, comments, newline) ==
    [x \in 1..line_count |->
        IF x \in comments THEN [Comment("note") EXCEPT !.n = x] ELSE Code("line", x + 2)]
    \o (IF newline THEN <<Blank>> ELSE <<>>)

\* compressor.compress_single_line_comments(content)
CompressSingleLineComments(content) ==
    /\ call.op = "none"
    /\ all_content = <<>>
    /\ call' = [NoCall EXCEPT !.op = "compress_single_line_comments", !.content = content]
    /\ ret' = [NoReturn EXCEPT !.value = compress_single_line_comments(self, content)]
    /\ self' = fields_after_call(self)
    /\ UNCHANGED <<last_level, all_content, before, calls, report>>

CommentNext ==
    \/ \E level \in Levels : SetCompressionLevel(level)
    \/ \E line_count \in 1..MaxLen, newline \in BOOLEAN :
           \E comments \in SUBSET (1..line_count) :
               CompressSingleLineComments(Commented(line_count, comments, newline))

CommentSpec == Init /\ [][CommentNext]_vars

(***************************************************************************)
(* analyze_repository on its own, on maps of files that import one         *)
(* another.                                                                *)
(***************************************************************************)
\* the kinds of file the maps analyzed are built from
AnalysisKinds ==
    { <<"mod", ".txt", "imports">>, <<"mod", ".txt", "imports_both">>,
      <<"mod", ".py", "imports">>, <<"test", ".txt", "imports_test">>,
      <<"test", ".py", "chunk">>, <<"Test", ".txt", "chunk">>,
      <<"notes", ".txt", "chunk">>, <<"main", ".py", "padded_chunk">>,
      <<"config", ".py", "chunk">> }

\* compressor.analyze_repository(all_content)
AnalyzeRepository ==
    /\ call.op = "none"
    /\ call' = [NoCall EXCEPT !.op = "analyze_repository"]
    /\ before' = all_content
    /\ ret' = [NoReturn EXCEPT !.value = analyze_repository(all_content)]
    /\ self' = fields_after_call(self)
    /\ UNCHANGED <<last_level, all_content, calls, report>>

AnalysisNext ==
    \/ \E k \in AnalysisKinds : AddFile(k)
    \/ AnalyzeRepository

AnalysisSpec == Init /\ [][AnalysisNext]_vars

(***************************************************************************)
(* compress_markdown on its own: files of about 50 lines whose headings    *)
(* stand at some of the places HeadingPlaces.                              *)
(***************************************************************************)
\* the places a heading may stand at: the first two lines of the file are no
\* headings, two places are adjacent, and the sections are of five lines
HeadingPlaces == {3, 8, 9, 14, 19, 24, 29, 34}

\* a Markdown file of line_count lines whose headings are the lines headings
Markdown(line_count, headings) ==
    [x \in 1..line_count |->
        IF x \in headings THEN [Comment("heading") EXCEPT !.n = x] ELSE Code("text", x + 2)]

CompressMarkdown(content) ==
    /\ call.op = "none"
    /\ all_content = <<>>
    /\ call' = [NoCall EXCEPT !.op = "compress_markdown", !.content = content]
    /\ ret' = [NoReturn EXCEPT !.value = compress_markdown(self, content)]
    /\ self' = fields_after_call(self)
    /\ UNCHANGED <<last_level, all_content, before, calls, report>>

MarkdownNext ==
    \/ \E level \in Levels : SetCompressionLevel(level)
    \/ \E over \in -1..MaxMdOver, headings \in SUBSET HeadingPlaces :
           CompressMarkdown(Markdown(50 + over, headings))

MarkdownSpec == Init /\ [][MarkdownNext]_vars

(***************************************************************************)
(* compress_python on its own: files of imports, a private function, a     *)
(* class and statements, in this order.  Every line is of 20 characters.   *)
(***************************************************************************)
\* the names of the methods of a class, in declaration order
MethodsOf(init, public, private) ==
    (IF init THEN << <<"__init__", 0>> >> ELSE <<>>)
    \o [x \in 1..public |-> <<"m", x>>]
    \o [x \in 1..private |-> <<"_p", x>>]

\* a class of the methods names, each of body lines after its header
ClassOf(names, body) ==
    <<ClassDef("Alpha")>>
    \o [t \in 1..(Len(names) * (body + 1)) |->
           IF (t - 1) % (body + 1) = 0
           THEN MethodDef(names[(t - 1) \div (body + 1) + 1][1],
                          names[(t - 1) \div (body + 1) + 1][2])
           ELSE MethodBody]

\* a Python file: imports, a private function of helper lines after its
\* header (none if helper = 0), a class and statements
PythonFile(imports, helper, names, body, statements) ==
    [x \in 1..imports |-> Import("mod", x)]
    \o (IF helper > 0 THEN <<FuncDef("_helper", 1)>> \o [x \in 1..helper |-> FuncBody] ELSE <<>>)
    \o ClassOf(names, body)
    \o [x \in 1..statements |-> Code("own", 20)]

\* the shapes of the files: a private method has at most 5 lines
ImportCounts == {0, 4, 6, 11}
HelperLines == {0, 6}
PublicCounts == {2, 5, 8}
BodyLines == {2, 4}
StatementCounts == {0, 3, 8}

CompressPython(content) ==
    /\ call.op = "none"
    /\ all_content = <<>>
    /\ Len(content) <= MaxPyLines
    /\ call' = [NoCall EXCEPT !.op = "compress_python", !.content = content]
    /\ \E r \in {compress_python(self, content)} :
           ret' = [NoReturn EXCEPT !.raised = (r = IndexError), !.value = r]
    /\ self' = fields_after_call(self)
    /\ UNCHANGED <<last_level, all_content, before, calls, report>>

PythonNext ==
    \/ \E level \in Levels : SetCompressionLevel(level)
    \/ \E imports \in ImportCounts, helper \in HelperLines, init \in BOOLEAN,
          public \in PublicCounts, private \in 0..1, body \in BodyLines,
          statements \in StatementCounts :
           CompressPython(PythonFile(imports, helper, MethodsOf(init, public, private),
                                     body, statements))

PythonSpec == Init /\ [][PythonNext]_vars

(***************************************************************************)
(* The claims.                                                             *)
(***************************************************************************)
\* whether the last call was compress_repository and it returned
Returns == call.op = "compress_repository" /\ ~ret.raised

\* C1: compress_file_content returns its content argument unchanged whenever
\* the content has fewer lines than min_lines_for_compression and the
\* aggressive flag is off, whatever the path.
C1_SmallFileUnchanged ==
    ( /\ call.op = "compress_file_content"
      /\ Len(splitlines(call.content)) < self.min_lines_for_compression
      /\ ~self.extremely_aggressive )
    => ~ret.raised /\ ret.value = call.content

\* a Python file of six comment lines, which the comment pass would shorten,
\* came back unchanged at the medium level
C1_Witness ==
    /\ call.op = "compress_file_content"
    /\ last_level = "medium"
    /\ call.path.ext = ".py"
    /\ call.content = ContentOf("comments")
    /\ ~ret.raised
    /\ ret.value = call.content

\* C2: in the map compress_repository returns at the light or medium level,
\* every input file with fewer lines than min_lines_for_compression has
\* exactly its input content, also when it shares chunks with other files.
C2_SmallFilesUnchangedInRepository ==
    (Returns /\ last_level \in {"light", "medium"})
    => \A x \in 1..Len(before) :
           Len(splitlines(before[x].content)) < self.min_lines_for_compression
           => /\ before[x].path \in KeySet(ret.files)
              /\ Get(ret.files, before[x].path) = before[x].content

\* C3: compress_repository leaves the caller's file map as it was: the same
\* keys and the same content per key, at every level and number of files.
C3_InputMapUnchanged ==
    call.op = "compress_repository" => all_content = before

\* the fields the level table assigns; the level none assigns those of a
\* compressor as constructed
LevelTable(level) ==
    CASE level = "light" -> LightConfig
      [] level = "medium" -> MediumConfig
      [] level = "heavy" -> HeavyConfig
      [] level = "none" -> DefaultConfig

ThresholdFields ==
    { "min_lines_for_compression", "import_summary_threshold", "duplicate_threshold",
      "max_lines_to_keep", "max_class_methods_to_show", "extremely_aggressive" }

\* C4: after any sequence of set_compression_level calls, every threshold has
\* the value the level table assigns to the level of the most recent call,
\* for none, light, medium and heavy, whatever was set earlier.
C4_LevelIsTableLookup ==
    last_level \in Levels
    => \A f \in ThresholdFields : self[f] = LevelTable(last_level)[f]

\* the index of the first line of kind k in content, 0 if none
FirstOfKind(content, k) ==
    IF \E a \in 1..Len(content) : content[a].k = k
    THEN CHOOSE a \in 1..Len(content) :
             content[a].k = k /\ \A b \in 1..(a - 1) : content[b].k # k
    ELSE 0

\* whether content has a header line stating count skipped files, followed by
\* a listing line for each path of dropped
ListsSkipped(content, count, dropped) ==
    /\ FirstOfKind(content, "skipped_header") # 0
    /\ content[FirstOfKind(content, "skipped_header")].n = count
    /\ \A p \in dropped :
           \E b \in (FirstOfKind(content, "skipped_header") + 1)..Len(content) :
               content[b].k = "skipped_item" /\ content[b].p = p

\* C5: for 25 input files at the heavy level, the returned map has at most 15
\* of the original paths and the synthetic entry, whose returned content has
\* a header line stating the skipped count and then a listing line for each
\* of the 10 dropped paths.
C5_SkippedFilesListed ==
    (Returns /\ last_level = "heavy" /\ Len(before) = 25)
    => /\ Cardinality(KeySet(ret.files) \cap KeySet(before)) <= 15
       /\ SkippedSummaryPath \in KeySet(ret.files)
       /\ ListsSkipped(Get(ret.files, SkippedSummaryPath), 10,
                       KeySet(before) \ KeySet(ret.files))

\* C6: the keys of the returned map are keys of the input map, but for at
\* most the one synthetic path; when the level is not aggressive or the input
\* has 20 or fewer files, the returned keys are the input keys.
C6_ReturnedKeys ==
    Returns
    => /\ KeySet(ret.files) \ KeySet(before) \subseteq {SkippedSummaryPath}
       /\ (~self.extremely_aggressive \/ Len(before) <= 20)
          => KeySet(ret.files) = KeySet(before)

\* the heavy level dropped files of a map of more than 20 and returned the
\* rest with the synthetic entry
C6_Witness ==
    /\ Returns
    /\ self.extremely_aggressive
    /\ Len(before) > 20
    /\ SkippedSummaryPath \in KeySet(ret.files)
    /\ KeySet(before) \ KeySet(ret.files) # {}
    /\ KeySet(ret.files) \ {SkippedSummaryPath} \subseteq KeySet(before)

\* the ten-line chunks of statements, of 50 characters or more, the inputs hold
SharedChunks == {Chunk, Chunk50, ChunkWs}

\* whether content holds the marker naming first and lines lines
HasMarker(content, first, lines) ==
    \E a \in 1..(Len(content) - 1) :
        /\ content[a] = Ln("duplicate_code", "", 0, first)
        /\ content[a + 1] = Ln("duplicate_lines", "", lines, NoPath)

\* C7: with duplicate_threshold = 3 and three input files that each hold the
\* same ten-line chunk of statements of at least 50 characters, the first
\* file still holds the chunk in the returned map, and each of the other two
\* holds the marker naming the first file and '# 10 lines' in its place.
C7_DuplicateSubstitution ==
    (Returns /\ self.duplicate_threshold = 3 /\ Len(before) = 3)
    => \A c \in SharedChunks :
           (\A x \in 1..3 : Contains(before[x].content, c))
           => /\ Contains(Get(ret.files, before[1].path), c)
              /\ \A x \in 2..3 :
                     /\ HasMarker(Get(ret.files, before[x].path), before[1].path, 10)
                     /\ ~Contains(Get(ret.files, before[x].path), c)

\* whether files maps path canon to a content that holds a chunk of lines
\* lines that the analysis of input found duplicated with canon as its first file
CanonicalKept(files, input, canon, lines) ==
    /\ canon \in KeySet(files)
    /\ \E dups \in {find_duplicate_code(input)} :
           \E d \in 1..Len(dups) :
               /\ dups[d].files[1] = canon
               /\ Len(dups[d].content) = lines
               /\ Contains(Get(files, canon), dups[d].content)

\* C8: whenever a file of the returned map holds a marker 'Same as in P', P is
\* a key of the returned map and its returned content still holds the chunk.
C8_CanonicalCopyKept ==
    Returns
    => \A x \in 1..Len(ret.files) :
           \A a \in 1..(Len(ret.files[x].content) - 1) :
               ret.files[x].content[a].k = "duplicate_code"
               => CanonicalKept(ret.files, before, ret.files[x].content[a].p,
                                ret.files[x].content[a + 1].n)

\* C9: compress_file_content returns a string and raises nothing, for every
\* path and content, the empty string too, at every level.
C9_NeverRaises ==
    call.op = "compress_file_content" => ~ret.raised

\* C10: if in compress_repository the compaction of a file raises, every
\* other file of the working map is still compacted and in the returned map.
C10_FailureDoesNotBlockOthers ==
    (call.op = "compress_repository" /\ ret.raised)
    => \E stats \in {analyze_repository(before)} :
           \A x \in 1..Len(all_content) :
               ~CompressOne(self, stats, all_content[x].path, all_content[x].content).raised
               => all_content[x].path \in KeySet(ret.files)

\* whether the last call was compress_file_content with a path and a content
\* that it handed to compress_python, which returned
PythonHandled ==
    /\ call.op = "compress_file_content"
    /\ ~ret.raised
    /\ detect_language(call.path) = "python"
    /\ ~SkipsSmallFile(self, Len(splitlines(call.content)))
    /\ ~(self.extremely_aggressive /\ PathLowerHasTestOrSpec(call.path))

\* the kinds of the lines that are import statements or lines of them
ImportLineKinds == {"import", "indented_import", "from_open", "continuation"}

\* the number of import statements of content
ImportStatements(content) ==
    Cardinality({a \in 1..Len(content) :
                    content[a].k \in {"import", "indented_import", "from_open"}})

\* the modules the import statements of content import
ImportedModules(content) ==
    {<<content[a].id, content[a].n>> :
        a \in {b \in 1..Len(content) :
                  content[b].k \in {"import", "indented_import", "from_open"}}}

\* the first line of content that is not blank, Blank if there is none
FirstNonBlank(content) ==
    IF \E a \in 1..Len(content) : content[a] # Blank
    THEN content[CHOOSE a \in 1..Len(content) :
                     content[a] # Blank /\ \A b \in 1..(a - 1) : content[b] = Blank]
    ELSE Blank

\* C11: for a parseable Python file with more import statements than
\* import_summary_threshold, the first non-blank line of the output of
\* compress_python is a summary of the distinct imported modules, and the
\* output holds none of the original import lines, indented imports and
\* continuation lines of multi-line imports included.
C11_ImportsSummarized ==
    ( /\ PythonHandled
      /\ Parses(call.content, 1)
      /\ ImportStatements(call.content) > self.import_summary_threshold )
    => /\ FirstNonBlank(ret.value).k = "imports_summary"
       /\ FirstNonBlank(ret.value).m = ImportedModules(call.content)
       /\ \A a \in 1..Len(ret.value) :
              ~(ret.value[a].k \in ImportLineKinds /\ \E b \in 1..Len(call.content) :
                    call.content[b] = ret.value[a])

\* whether the last call was compress_file_content, at the light or the
\* medium level, of a .json file that holds a valid array of count elements
JsonArrayCompacted(count) ==
    /\ call.op = "compress_file_content"
    /\ last_level \in {"light", "medium"}
    /\ call.path.ext = ".json"
    /\ JsonLoads(SelectSeq(call.content, IsNotBlank)).ok
    /\ Len(JsonLoads(SelectSeq(call.content, IsNotBlank)).data) = count

\* whether content holds '<count> items' and a serialized sample of exactly
\* sample elements
HasSample(content, count, sample) ==
    \E a \in 1..Len(content) :
        /\ content[a].k = "json_header"
        /\ content[a].n = count
        /\ JsonLoads(SelectSeq(SubSeq(content, a + 1, Len(content)), IsNotBlank)).ok
        /\ Len(JsonLoads(SelectSeq(SubSeq(content, a + 1, Len(content)), IsNotBlank)).data)
               = sample

StylesheetCompressed(count) ==
    /\ call.op = "compress_file_content"
    /\ last_level = "heavy"
    /\ ~ret.raised
    /\ detect_language(call.path) = "css"
    /\ VendorCount(call.content) = count

\* C13: for a stylesheet at the heavy level, if it has 6 vendor-prefixed
\* declarations the output of compress_css holds no vendor-prefixed
\* declaration and holds the consolidation note; if it has only 4, the output
\* is the stylesheet, without a note.
C13_VendorPrefixesConsolidated ==
    /\ StylesheetCompressed(6)
       => /\ VendorCount(ret.value) = 0
          /\ \E x \in 1..Len(ret.value) : ret.value[x] = Css("css_note", 0)
    /\ StylesheetCompressed(4) => ret.value = call.content

\* whether no content of files holds two newlines followed by 'File: '
NoBlockStartInside(files) ==
    \A x \in 1..Len(files) : \A a \in 1..Len(files[x].content) :
        files[x].content[a].k # "file_line"

\* C14: serializing a path-to-content map as blocks
\* 'File: <path>\nContent:\n<content>\n\n' and parsing the result with the
\* file-block pattern yields the same map, for every map whose contents do
\* not hold two newlines followed by 'File: '.
C14_ReportRoundTrip ==
    call.op = "parse_report" /\ NoBlockStartInside(ret.files) => all_content = ret.files

C16_OnlySetLevelChangesFields ==
    [][(self' # self) => \E level \in Levels : SetCompressionLevel(level)]_vars

\* compress_repository was called twice at the heavy level, on a map it
\* capped, and the fields are those set_compression_level('heavy') set
C16_Witness ==
    /\ call.op = "compress_repository"
    /\ Len(calls) = 2
    /\ last_level = "heavy"
    /\ Len(calls[1].files_content) > CapAbove
    /\ calls[1].cfg = HeavyConfig
    /\ self = HeavyConfig

\* whether files_out holds exactly TopFiles of the paths of files_in, each with
\* a score in repo_stats at least that of every path of files_in it lacks
RetainsTopFiles(repo_stats, files_in, files_out) ==
    /\ Cardinality(KeySet(files_in) \cap KeySet(files_out)) = TopFiles
    /\ \A kept \in KeySet(files_in) \cap KeySet(files_out) :
           \A dropped \in KeySet(files_in) \ KeySet(files_out) :
               ImportanceOf(repo_stats, kept, 0) >= ImportanceOf(repo_stats, dropped, 0)

\* C17: when the heavy-tier cap applies (aggressive flag on and more than 20
\* input files), exactly 15 input files are retained and every retained file
\* has an importance score greater than or equal to that of every dropped
\* file.
C17_CapKeepsMostImportant ==
    (Returns /\ self.extremely_aggressive /\ Len(before) > CapAbove)
    => RetainsTopFiles(analyze_repository(before), before, ret.files)

\* a map of more than 20 files with main.py as its last file was capped:
\* main.py was kept and the fifteenth file of the map was dropped
C17_Witness ==
    /\ Returns
    /\ self.extremely_aggressive
    /\ Len(before) > CapAbove
    /\ before[Len(before)].path.name = "main"
    /\ before[Len(before)].path \in KeySet(ret.files)
    /\ before[TopFiles].path \notin KeySet(ret.files)
    /\ before[1].path \in KeySet(ret.files)

\* whether every group of dups lists at least two files, each of them once
GroupsAcrossFiles(dups) ==
    \A d \in 1..Len(dups) :
        /\ Len(dups[d].files) >= 2
        /\ \A a, b \in 1..Len(dups[d].files) :
               dups[d].files[a] = dups[d].files[b] => a = b

\* whether no content of files holds a duplicate marker
NoMarkers(files) ==
    \A x \in 1..Len(files) :
        \A a \in 1..Len(files[x].content) : files[x].content[a].k # "duplicate_code"

\* C18: find_duplicate_code records a duplicate group only for a chunk that
\* occurs in at least 2 distinct files, and the group's list of owning files
\* holds each owning path once; a chunk repeated only inside a single file
\* never forms a group and never has that file's own chunk replaced by a
\* marker (so the map of a single file comes back without groups or markers).
C18_GroupsNeedDistinctFiles ==
    Returns
    => /\ GroupsAcrossFiles(find_duplicate_code(before))
       /\ Len(before) = 1
          => find_duplicate_code(before) = <<>> /\ NoMarkers(ret.files)

\* whether dups holds a group of a chunk of lines lines with first as its first
\* file and at least threshold distinct owning files
GroupReaches(dups, first, lines, threshold) ==
    \E d \in 1..Len(dups) :
        /\ dups[d].files[1] = first
        /\ Len(dups[d].content) = lines
        /\ Cardinality({dups[d].files[a] : a \in 1..Len(dups[d].files)}) >= threshold

\* C19: duplicate substitution respects the threshold: compress_repository
\* never inserts a '# DUPLICATE CODE' marker for a chunk whose number of owning
\* files is below duplicate_threshold, so every marker of the returned map
\* stands for a chunk that at least duplicate_threshold files of the input own.
C19_MarkerNeedsThresholdOwners ==
    Returns
    => \A x \in 1..Len(ret.files) :
           \A a \in 1..(Len(ret.files[x].content) - 1) :
               ret.files[x].content[a].k = "duplicate_code"
               => GroupReaches(find_duplicate_code(before), ret.files[x].content[a].p,
                               ret.files[x].content[a + 1].n, self.duplicate_threshold)

\* whether files_out maps every path of files_in that repo_stats scores 5 to 7
\* to the header followed by what compress_file_content returns for its
\* content in files_in
BannerThenCompacted(cfg, repo_stats, files_in, files_out) ==
    \A x \in 1..Len(files_in) :
        ( /\ ImportanceOf(repo_stats, files_in[x].path, 5) \in 5..7
          /\ files_in[x].path \in KeySet(files_out) )
        => \E r \in {compress_file_content(cfg, files_in[x].path, files_in[x].content)} :
               /\ ~r.raised
               /\ Get(files_out, files_in[x].path)
                      = add_compression_header(files_in[x].path, r.value)

\* C20: for a file of importance 5 to 7 at the aggressive tier, the returned
\* content equals the banner followed by what compress_file_content returns
\* for the file's original content, for every language (.json and .css files
\* too); stated for maps without duplicated chunks, where no marker is
\* substituted afterwards.
C20_BannerPrecedesCompaction ==
    (Returns /\ self.extremely_aggressive /\ find_duplicate_code(before) = <<>>)
    => BannerThenCompacted(self, analyze_repository(before), before, ret.files)

\* whether content is the test-file stub of file_path, whatever line count it
\* states
IsTestStub(content, file_path) ==
    /\ Len(content) = 3
    /\ content[1] = Ln("test_summary", "", 0, file_path)
    /\ content[2].k = "test_lines"
    /\ content[3] = Ln("test_skipped", "", 0, NoPath)

\* C21: at the aggressive tier, every file of the working map whose path
\* contains a test/spec marker is mapped by compress_repository to the fixed
\* test-file stub, regardless of its importance score and line count, before
\* any other compaction or summary stub is chosen for it.
C21_TestFilesGetStub ==
    (Returns /\ self.extremely_aggressive)
    => \A x \in 1..Len(ret.files) :
           PathLowerHasTestOrSpec(ret.files[x].path)
           => IsTestStub(ret.files[x].content, ret.files[x].path)

\* whether result is a prefix and a suffix of original around one marker line
\* whose number is the number of lines of original that result lacks
KeepsEndsAroundMarker(original, result) ==
    \E p \in {q \in 1..Len(result) : result[q].k = "more_lines"} :
        /\ Len(result) - 1 <= Len(original)
        /\ SubSeq(result, 1, p - 1) = SubSeq(original, 1, p - 1)
        /\ SubSeq(result, p + 1, Len(result))
               = SubSeq(original, Len(original) - (Len(result) - p) + 1, Len(original))
        /\ result[p].n = Len(original) - (Len(result) - 1)

\* C22: for every content whose line count exceeds max_lines_to_keep, at
\* every level (max_lines_to_keep = 500, 1000, 750, 300), the content kept
\* is a prefix and a suffix of the original lines around a single marker
\* line '# ... N more lines ...', and N is the number of original lines
\* elided.
C22_MarkerCountsElided ==
    ( /\ call.op = "enforce_max_lines"
      /\ Len(splitlines(call.content)) > self.max_lines_to_keep )
    => KeepsEndsAroundMarker(splitlines(call.content), ret.value)

\* the pass of a language's handler that is specific to the language, for the
\* languages whose handler has one apart from the generic pass; no pass for a
\* language without a handler
SpecificPass(cfg, language, content) ==
    CASE language = "python" -> python_passes(cfg, content)
      [] language = "json" -> compress_json(cfg, content)
      [] language = "css" -> compress_css(cfg, content)
      [] OTHER -> content

\* C23: generic_compression is applied before the language-specific pass for
\* every language that has a handler, at every level, and is the only pass
\* applied for files of unknown language: a call that gets past the small-file
\* test, the line limit and the test-file stub returns the language's pass
\* applied to generic_compression of the content (stated for python, json,
\* css and unknown).
C23_GenericPassFirst ==
    ( /\ call.op = "compress_file_content"
      /\ ~ret.raised
      /\ ~SkipsSmallFile(self, Len(splitlines(call.content)))
      /\ Len(splitlines(call.content)) <= self.max_lines_to_keep
      /\ ~(self.extremely_aggressive /\ PathLowerHasTestOrSpec(call.path))
      /\ detect_language(call.path) \in {"python", "json", "css", "unknown"} )
    => ret.value = SpecificPass(self, detect_language(call.path),
                                generic_compression(self, call.content))

\* the first line of the run of comment lines that comment line x is in
RunFirst(lines, x) ==
    CHOOSE a \in 1..x :
        /\ \A t \in a..x : IsCommentLine(lines[t])
        /\ a = 1 \/ ~IsCommentLine(lines[a - 1])

\* the last line of the run of comment lines that comment line x is in
RunLast(lines, x) ==
    CHOOSE b \in x..Len(lines) :
        /\ \A t \in x..b : IsCommentLine(lines[t])
        /\ b = Len(lines) \/ ~IsCommentLine(lines[b + 1])

\* what the claim has in the output for line x of a run a..b of run lines
\* (lines outside a run count as a run of one line)
KeptOfRun(aggressive, lines, x, a, b, run) ==
    IF run <= 3 THEN <<lines[x]>>
    ELSE IF aggressive /\ run > 5
    THEN IF x = a THEN <<lines[x], Ln("more_comment_lines", "", run - 1, NoPath)>> ELSE <<>>
    ELSE IF x = a THEN <<lines[x], Ln("more_comment_lines", "", run - 2, NoPath)>>
    ELSE IF x = b THEN <<lines[x]>>
    ELSE <<>>

KeptOfLine(aggressive, lines, x) ==
    IF IsCommentLine(lines[x])
    THEN KeptOfRun(aggressive, lines, x, RunFirst(lines, x), RunLast(lines, x),
                   RunLast(lines, x) - RunFirst(lines, x) + 1)
    ELSE <<lines[x]>>

RECURSIVE KeptFrom(_, _, _)
KeptFrom(aggressive, lines, x) ==
    IF x > Len(lines) THEN <<>>
    ELSE KeptOfLine(aggressive, lines, x) \o KeptFrom(aggressive, lines, x + 1)

\* C24: compress_single_line_comments outputs every run of at most 3
\* consecutive comment-only lines unchanged; a run of more than 3 becomes its
\* first line, one marker '# ... N more comment lines ...' and its last line,
\* except that at the aggressive tier a run of more than 5 becomes its first
\* line and the marker only; N plus the number of kept lines of the run is
\* the run's length, and non-comment lines keep their order.
C24_CommentRunsCompacted ==
    call.op = "compress_single_line_comments"
    => ret.value = join(KeptFrom(self.extremely_aggressive, splitlines(call.content), 1))

\* at the aggressive tier a run of six comments became its first line and the
\* marker, and the statement and the comment after it were kept
C24_Witness ==
    /\ call.op = "compress_single_line_comments"
    /\ self.extremely_aggressive
    /\ Len(splitlines(call.content)) = 8
    /\ ret.value = << call.content[1], Ln("more_comment_lines", "", 5, NoPath),
                      call.content[7], call.content[8] >>
    /\ call.content[7].k = "code"
    /\ call.content[8].k = "comment"

\* filename.lower() is a recognized entry-point filename
IsEntryPoint(file_path) ==
    file_path.i = 0 /\ <<NameLower(file_path.name), file_path.ext>> \in
        { <<"main", ".py">>, <<"app", ".py">>, <<"index", ".js">>,
          <<"server", ".js">>, <<"app", ".js">> }

HasCoreExtension(file_path) == file_path.ext \in {".py", ".js", ".ts", ".jsx", ".tsx"}

\* the filename ends with a recognized config filename
IsConfigName(file_path) ==
    file_path.i = 0 /\ <<file_path.name, file_path.ext>> \in
        { <<"config", ".js">>, <<"config", ".py">>, <<"settings", ".py">> }

\* whether score is what the rules give path file_path, in their order, when
\* the reference-count rule matches iff referenced
FirstRuleScore(file_path, referenced, score) ==
    /\ score \in {3, 5, 7, 8, 10}
    /\ IsEntryPoint(file_path) => score = 10
    /\ (~IsEntryPoint(file_path) /\ HasCoreExtension(file_path)) => score = 8
    /\ ( /\ ~IsEntryPoint(file_path) /\ ~HasCoreExtension(file_path)
         /\ (IsConfigName(file_path) \/ referenced) ) => score = 7
    /\ ( /\ ~IsEntryPoint(file_path) /\ ~HasCoreExtension(file_path)
         /\ ~IsConfigName(file_path) /\ ~referenced )
       => score = (IF HasTestOrSpec(file_path.name) THEN 3 ELSE 5)

ReferencingFiles(all, file_path) ==
    Cardinality({y \in 1..Len(all) :
        all[y].path # file_path /\ ImportsFrom(file_path, all[y].content) > 0})

\* C26: a file that matches none of the entry-point, core-extension and config
\* rules gets importance 7 exactly when it is referenced by name from 5 or
\* more other files of the snapshot, and each other file contributes at most
\* one reference, so the count never exceeds the number of other files.
C26_SevenFromFiveReferences ==
    call.op = "analyze_repository"
    => \A x \in 1..Len(before) :
           /\ ret.value.imports[x] <= Len(before) - 1
           /\ ( /\ ~IsEntryPoint(before[x].path)
                /\ ~HasCoreExtension(before[x].path)
                /\ ~IsConfigName(before[x].path) )
              => ( ret.value.importance[x][2] = 7
                   <=> ReferencingFiles(before, before[x].path) >= 5 )

\* whether content is a note stating count elements followed by a sample of
\* the element first alone, serialized as a value or as a list of one
HasFirstItemOnly(content, count, first) ==
    /\ Len(content) >= 2
    /\ content[1].k = "json_header"
    /\ content[1].n = count
    /\ Tail(content) \in {<<Ln("json_value", "", first, NoPath)>>, JsonDumps(<<first>>)}

\* whether content holds no note of a sample
NotSampled(content) == \A a \in 1..Len(content) : content[a].k # "json_header"

\* whether value is what the claim has for the array data at the tier
SampledByTier(aggressive, data, value) ==
    IF aggressive
    THEN Len(data) > 3 => HasFirstItemOnly(value, Len(data), data[1])
    ELSE IF Len(data) > 10 THEN HasSample(value, Len(data), 3)
    ELSE NotSampled(value)

\* C27: compress_json at the aggressive tier replaces every valid JSON array
\* of more than 3 elements by a note stating the true element count plus a
\* sample of only its first element; at the non-aggressive tier an array is
\* sampled (first 3 elements) only when it has more than 10 elements.  Stated
\* for arrays, of calls of compress_file_content that reach the handler.
C27_JsonSampledByTier ==
    ( /\ call.op = "compress_file_content"
      /\ ~ret.raised
      /\ detect_language(call.path) = "json"
      /\ ~SkipsSmallFile(self, Len(splitlines(call.content)))
      /\ ~(self.extremely_aggressive /\ PathLowerHasTestOrSpec(call.path))
      /\ JsonLoads(SelectSeq(call.content, IsNotBlank)).ok )
    => SampledByTier(self.extremely_aggressive,
                     JsonLoads(SelectSeq(call.content, IsNotBlank)).data, ret.value)

\* the heading lines of lines
HeadingsOf(lines) == {h \in 1..Len(lines) : IsHeading(lines[h])}

\* the last of the lines headings at or before line x, 0 if there is none
LastHeading(headings, x) ==
    IF \E h \in headings : h <= x
    THEN CHOOSE h \in headings : h <= x /\ \A g \in headings : g <= x => g <= h
    ELSE 0

\* the lines of a section that the claim keeps: the heading, the three lines
\* after it, and the fourth as the place of the marker
KeptPlaces(lines, headings) ==
    {x \in 1..Len(lines) : LastHeading(headings, x) # 0 /\ x - LastHeading(headings, x) <= 4}

\* the line the rewrite has for line p of lines
RewriteOf(lines, headings, p) ==
    IF p - LastHeading(headings, p) = 4 THEN MdEllipsis ELSE lines[p]

\* the rewrite the claim describes: every heading, at most three lines after
\* each, and one '...' for the rest of a section
SectionRewrite(lines, headings, places) ==
    [x \in 1..Cardinality(places) |-> RewriteOf(lines, headings, NthOf(places, x))]

\* what the claim has compress_markdown return for lines, places being the
\* lines its rewrite is made of
RewriteOrGeneric(cfg, content, lines, places) ==
    IF cfg.extremely_aggressive /\ Len(lines) > 50 /\ 10 * Cardinality(places) < 6 * Len(lines)
    THEN join(SectionRewrite(lines, HeadingsOf(lines), places))
    ELSE generic_compression(cfg, content)

\* C29: compress_markdown at the aggressive tier on a file of more than 50
\* lines: the rewrite keeps every heading line in original order, at most 3
\* non-heading lines directly after each heading, and at most one '...'
\* marker per heading section; the rewrite is returned only if its line count
\* is below 60% of the original line count, otherwise (and for files of 50
\* lines or fewer, and at non-aggressive levels) the result is exactly
\* generic_compression of the content.
C29_MarkdownRewriteOrGeneric ==
    call.op = "compress_markdown"
    => ret.value = RewriteOrGeneric(self, call.content, splitlines(call.content),
                       KeptPlaces(splitlines(call.content), HeadingsOf(splitlines(call.content))))

\* at the aggressive tier a file of 51 lines with two adjacent headings came
\* back as its rewrite, with a marker and in fewer than 31 lines
C29_Witness ==
    /\ call.op = "compress_markdown"
    /\ self.extremely_aggressive
    /\ Len(call.content) = 51
    /\ IsHeading(call.content[8]) /\ IsHeading(call.content[9])
    /\ Len(ret.value) < 31
    /\ \E x \in 1..Len(ret.value) : ret.value[x] = MdEllipsis
    /\ ret.value # generic_compression(self, call.content)

\* the names of the methods that content defines
DefinedMethods(content) ==
    { <<content[x].id, content[x].n>> :
          x \in {y \in 1..Len(content) : content[y].k = "method_def"} }

\* whether the summary line at line x of value lists names as the claim has
\* it for a class whose members are defined
ListsDefinedMembers(cfg, value, x, defined) ==
    /\ Len(value[x].m) <= cfg.max_class_methods_to_show
    /\ \A j \in 1..Len(value[x].m) : value[x].m[j] \in defined
    /\ (x < Len(value) /\ value[x + 1].k = "more_methods")
       => value[x + 1].n = Cardinality(defined) - Len(value[x].m)

\* C28: when compress_python summarizes a class (member count above
\* max_class_methods_to_show and more than 30 lines), the summary line lists
\* at most max_class_methods_to_show member names, each of which is a member
\* actually defined in the class, and the '+ K more methods' line, when
\* present, gives K = total member count minus the number of names listed.
C28_SummaryListsDefinedMembers ==
    (call.op = "compress_python" /\ ~ret.raised)
    => \A x \in 1..Len(ret.value) :
           ret.value[x].k = "key_methods"
           => ListsDefinedMembers(self, ret.value, x, DefinedMethods(call.content))

\* the number of lines of kind k of content
CountOf(content, k) == Cardinality({x \in 1..Len(content) : content[x].k = k})

\* whether value is content with nothing but its own classes and functions
\* replaced: the statements of the module are all there, a class summary
\* begins with the header of the class, and a function that has a placeholder
\* has no line of its body left
ReplacesOwnSource(content, value) ==
    /\ CountOf(value, "code") = CountOf(content, "code")
    /\ \A x \in 1..Len(value) :
           value[x].k = "key_methods" => (x > 1 /\ value[x - 1].k = "class_def")
    /\ CountOf(value, "utility_function") > 0 => CountOf(value, "func_body") = 0

\* C30: in compress_python, the text that a class summary or a
\* utility-function placeholder replaces is exactly the source text of that
\* class or function as it stands in the content being edited, also when the
\* import summarization step has already removed and prepended lines in the
\* same call; extracting that text never fails, so compress_python returns a
\* string for every input that parses.
C30_ReplacesOwnSource ==
    (call.op = "compress_python" /\ Parses(call.content, 1))
    => (~ret.raised /\ ReplacesOwnSource(call.content, ret.value))

====
